---------------------------- MODULE Spec2Model ----------------------------
(***************************************************************************)
(* Model of 0x02-redis_basic: the Cache object store with its call-counting *)
(* and call-history decorators (exercise.py) and the expiring page cache    *)
(* (web.py), both talking to one Redis database.                            *)
(*                                                                          *)
(* Byte strings are sequences of 0..255, texts are sequences of code        *)
(* points.  A Python value is a record [t, v]: t is the Python type         *)
(* ("bytes", "str", "int", "float", "none") or the name of the exception    *)
(* raised, v a sequence of integers (the bytes, the code points, <<n>> for  *)
(* an int, <<2*x>> for a float x that is a multiple of 0.5).                *)
(***************************************************************************)
EXTENDS Integers, Sequences, FiniteSets, TLC

(***************************************************************************)
(* Bounds of the model.                                                     *)
(***************************************************************************)
\* uuid4 keys that store may draw in one run
MaxKeys == 3
\* fetch calls in one run
MaxFetch == 3
\* concurrent callers of store / of get_page
NumProcs == 2
\* length of the byte strings and texts given to store in the round-trip runs
MaxLen == 2
\* magnitude of the numbers given to store in the round-trip runs
MaxAbs == 12
\* fetch calls made next to calls of clear_cache and get_cache_info
MaxRaced == 2

(***************************************************************************)
(* Python values                                                            *)
(***************************************************************************)
PyBytes(b) == [t |-> "bytes", v |-> b]
PyStr(s) == [t |-> "str", v |-> s]
PyInt(n) == [t |-> "int", v |-> <<n>>]
PyFloat(twice) == [t |-> "float", v |-> <<twice>>]
PyNone == [t |-> "none", v |-> <<>>]
Raised(exc) == [t |-> exc, v |-> <<>>]
Exceptions == {"ValueError", "UnicodeDecodeError", "UnicodeEncodeError", "ResponseError"}
IsRaised(x) == x.t \in Exceptions

\* the character of a decimal digit
Digit(d) == 48 + d

(***************************************************************************)
(* str(n).encode(): the decimal rendering of an integer                     *)
(***************************************************************************)
RECURSIVE NatDigits(_)
NatDigits(n) == IF n < 10 THEN <<Digit(n)>>
                ELSE NatDigits(n \div 10) \o <<Digit(n % 10)>>

IntStr(n) == IF n < 0 THEN <<45>> \o NatDigits(-n) ELSE NatDigits(n)

\* repr(x) of a float x = twice/2: "1.5", "-0.5", "2.0"
FloatRepr(twice) ==
  LET a == IF twice < 0 THEN -twice ELSE twice
      sign == IF twice < 0 THEN <<45>> ELSE <<>>
  IN sign \o NatDigits(a \div 2) \o <<46>> \o <<Digit(IF a % 2 = 1 THEN 5 ELSE 0)>>

(***************************************************************************)
(* UTF-8 (str.encode / bytes.decode("utf-8"), strict)                       *)
(***************************************************************************)
IsSurrogate(c) == c >= 55296 /\ c <= 57343

Utf8Char(c) ==
  IF c < 128 THEN <<c>>
  ELSE IF c < 2048 THEN <<192 + (c \div 64), 128 + (c % 64)>>
  ELSE IF c < 65536 THEN <<224 + (c \div 4096), 128 + ((c \div 64) % 64), 128 + (c % 64)>>
  ELSE <<240 + (c \div 262144), 128 + ((c \div 4096) % 64),
         128 + ((c \div 64) % 64), 128 + (c % 64)>>

RECURSIVE Utf8Encode(_)
Utf8Encode(s) == IF s = <<>> THEN <<>> ELSE Utf8Char(Head(s)) \o Utf8Encode(Tail(s))

Encodable(s) == \A i \in 1..Len(s) : ~IsSurrogate(s[i])

IsCont(b) == b >= 128 /\ b <= 191

\* the length of the well-formed UTF-8 sequence b starts with, 0 when it starts with none
Utf8Lead(b) ==
  IF b = <<>> THEN 0
  ELSE IF b[1] < 128 THEN 1
  ELSE IF b[1] >= 194 /\ b[1] <= 223 /\ Len(b) >= 2 /\ IsCont(b[2]) THEN 2
  ELSE IF b[1] >= 224 /\ b[1] <= 239 /\ Len(b) >= 3 /\ IsCont(b[2]) /\ IsCont(b[3])
          /\ (b[1] = 224 => b[2] >= 160) /\ (b[1] = 237 => b[2] <= 159) THEN 3
  ELSE IF b[1] >= 240 /\ b[1] <= 244 /\ Len(b) >= 4 /\ IsCont(b[2]) /\ IsCont(b[3])
          /\ IsCont(b[4]) /\ (b[1] = 240 => b[2] >= 144) /\ (b[1] = 244 => b[2] <= 143) THEN 4
  ELSE 0

Utf8Point(b, n) ==
  IF n = 1 THEN b[1]
  ELSE IF n = 2 THEN (b[1] - 192) * 64 + (b[2] - 128)
  ELSE IF n = 3 THEN (b[1] - 224) * 4096 + (b[2] - 128) * 64 + (b[3] - 128)
  ELSE (b[1] - 240) * 262144 + (b[2] - 128) * 4096 + (b[3] - 128) * 64 + (b[4] - 128)

RECURSIVE Utf8Valid(_)
Utf8Valid(b) == b = <<>> \/ (Utf8Lead(b) > 0 /\ Utf8Valid(SubSeq(b, Utf8Lead(b) + 1, Len(b))))

RECURSIVE Utf8Points(_)
Utf8Points(b) ==
  IF b = <<>> THEN <<>>
  ELSE <<Utf8Point(b, Utf8Lead(b))>> \o Utf8Points(SubSeq(b, Utf8Lead(b) + 1, Len(b)))

\* d.decode("utf-8")
Decode(b) == IF Utf8Valid(b) THEN PyStr(Utf8Points(b)) ELSE Raised("UnicodeDecodeError")

(***************************************************************************)
(* int(d) on a byte string                                                  *)
(***************************************************************************)
IsSpace(c) == c = 32 \/ (c >= 9 /\ c <= 13)
IsDigit(c) == c >= 48 /\ c <= 57

RECURSIVE LStrip(_)
LStrip(b) == IF b # <<>> /\ IsSpace(Head(b)) THEN LStrip(Tail(b)) ELSE b

RECURSIVE RStrip(_)
RStrip(b) == IF b # <<>> /\ IsSpace(b[Len(b)]) THEN RStrip(SubSeq(b, 1, Len(b) - 1)) ELSE b

\* digits, single underscores allowed between two digits
DigitsOk(b) ==
  /\ b # <<>>
  /\ IsDigit(b[1]) /\ IsDigit(b[Len(b)])
  /\ \A i \in 1..Len(b) : IsDigit(b[i]) \/ (b[i] = 95 /\ i > 1 /\ b[i - 1] # 95)

RECURSIVE DigitsValue(_, _)
DigitsValue(b, acc) ==
  IF b = <<>> THEN acc
  ELSE IF Head(b) = 95 THEN DigitsValue(Tail(b), acc)
  ELSE DigitsValue(Tail(b), acc * 10 + (Head(b) - 48))

\* as ParseInt, the sign read and dropped
ParseIntUnsigned(b) ==
  LET s == RStrip(LStrip(b))
      signed == s # <<>> /\ s[1] \in {43, 45}
      body == IF signed THEN Tail(s) ELSE s
  IN IF DigitsOk(body) THEN PyInt(DigitsValue(body, 0)) ELSE Raised("ValueError")

ParseInt(b) ==
  LET s == RStrip(LStrip(b))
      signed == s # <<>> /\ s[1] \in {43, 45}
      body == IF signed THEN Tail(s) ELSE s
  IN IF DigitsOk(body)
     THEN PyInt(IF signed /\ s[1] = 45 THEN -DigitsValue(body, 0) ELSE DigitsValue(body, 0))
     ELSE Raised("ValueError")

(***************************************************************************)
(* The coercion functions a caller hands to Cache.get                       *)
(***************************************************************************)
Fns == {"None", "int", "decode"}

ApplyFn(fn, data) ==
  IF fn = "int" THEN ParseInt(data)
  ELSE IF fn = "decode" THEN Decode(data)
  ELSE PyBytes(data)

(***************************************************************************)
(* What the Redis client sends for a value (set, rpush, setex)              *)
(***************************************************************************)
Encode(x) ==
  IF x.t = "bytes" THEN x.v
  ELSE IF x.t = "str" THEN Utf8Encode(x.v)
  ELSE IF x.t = "int" THEN IntStr(x.v[1])
  ELSE FloatRepr(x.v[1])

CanEncode(x) == x.t = "str" => Encodable(x.v)

(***************************************************************************)
(* repr() of the payloads and str(args) of a one-argument call              *)
(***************************************************************************)
HexDigit(d) == IF d < 10 THEN 48 + d ELSE 87 + d

\* \xhh
HexEsc(c) == <<92, 120, HexDigit(c \div 16), HexDigit(c % 16)>>

\* \uhhhh
UEsc(c) == <<92, 117, HexDigit(c \div 4096), HexDigit((c \div 256) % 16),
             HexDigit((c \div 16) % 16), HexDigit(c % 16)>>

Has(s, c) == \E i \in 1..Len(s) : s[i] = c

\* the quote repr() picks: " when the string holds ' and no ", else '
QuoteOf(s) == IF Has(s, 39) /\ ~Has(s, 34) THEN 34 ELSE 39

EscCommon(c, q) ==
  IF c = 92 THEN <<92, 92>>
  ELSE IF c = q THEN <<92, c>>
  ELSE IF c = 9 THEN <<92, 116>>
  ELSE IF c = 10 THEN <<92, 110>>
  ELSE IF c = 13 THEN <<92, 114>>
  ELSE IF c < 32 \/ c = 127 THEN HexEsc(c)
  ELSE <<c>>

\* one byte of a bytes literal
EscByte(c, q) == IF c >= 128 THEN HexEsc(c) ELSE EscCommon(c, q)

\* \Uhhhhhhhh
UEsc8(c) == <<92, 85, 48, 48, HexDigit(c \div 1048576), HexDigit((c \div 65536) % 16),
              HexDigit((c \div 4096) % 16), HexDigit((c \div 256) % 16),
              HexDigit((c \div 16) % 16), HexDigit(c % 16)>>

\* the code points for which str.isprintable() is false, as ranges <<first, last>>:
\* the categories Cc, Cf, Cs, Co, Cn, Zl, Zp and Zs (but the space) of the Unicode
\* database the interpreter carries (14.0.0 in Python 3.11)
Unprintable == <<
  <<0, 31>>, <<127, 160>>, <<173, 173>>, <<888, 889>>, <<896, 899>>, <<907, 907>>,
  <<909, 909>>, <<930, 930>>, <<1328, 1328>>, <<1367, 1368>>, <<1419, 1420>>,
  <<1424, 1424>>, <<1480, 1487>>, <<1515, 1518>>, <<1525, 1541>>, <<1564, 1564>>,
  <<1757, 1757>>, <<1806, 1807>>, <<1867, 1868>>, <<1970, 1983>>, <<2043, 2044>>,
  <<2094, 2095>>, <<2111, 2111>>, <<2140, 2141>>, <<2143, 2143>>, <<2155, 2159>>,
  <<2191, 2199>>, <<2274, 2274>>, <<2436, 2436>>, <<2445, 2446>>, <<2449, 2450>>,
  <<2473, 2473>>, <<2481, 2481>>, <<2483, 2485>>, <<2490, 2491>>, <<2501, 2502>>,
  <<2505, 2506>>, <<2511, 2518>>, <<2520, 2523>>, <<2526, 2526>>, <<2532, 2533>>,
  <<2559, 2560>>, <<2564, 2564>>, <<2571, 2574>>, <<2577, 2578>>, <<2601, 2601>>,
  <<2609, 2609>>, <<2612, 2612>>, <<2615, 2615>>, <<2618, 2619>>, <<2621, 2621>>,
  <<2627, 2630>>, <<2633, 2634>>, <<2638, 2640>>, <<2642, 2648>>, <<2653, 2653>>,
  <<2655, 2661>>, <<2679, 2688>>, <<2692, 2692>>, <<2702, 2702>>, <<2706, 2706>>,
  <<2729, 2729>>, <<2737, 2737>>, <<2740, 2740>>, <<2746, 2747>>, <<2758, 2758>>,
  <<2762, 2762>>, <<2766, 2767>>, <<2769, 2783>>, <<2788, 2789>>, <<2802, 2808>>,
  <<2816, 2816>>, <<2820, 2820>>, <<2829, 2830>>, <<2833, 2834>>, <<2857, 2857>>,
  <<2865, 2865>>, <<2868, 2868>>, <<2874, 2875>>, <<2885, 2886>>, <<2889, 2890>>,
  <<2894, 2900>>, <<2904, 2907>>, <<2910, 2910>>, <<2916, 2917>>, <<2936, 2945>>,
  <<2948, 2948>>, <<2955, 2957>>, <<2961, 2961>>, <<2966, 2968>>, <<2971, 2971>>,
  <<2973, 2973>>, <<2976, 2978>>, <<2981, 2983>>, <<2987, 2989>>, <<3002, 3005>>,
  <<3011, 3013>>, <<3017, 3017>>, <<3022, 3023>>, <<3025, 3030>>, <<3032, 3045>>,
  <<3067, 3071>>, <<3085, 3085>>, <<3089, 3089>>, <<3113, 3113>>, <<3130, 3131>>,
  <<3141, 3141>>, <<3145, 3145>>, <<3150, 3156>>, <<3159, 3159>>, <<3163, 3164>>,
  <<3166, 3167>>, <<3172, 3173>>, <<3184, 3190>>, <<3213, 3213>>, <<3217, 3217>>,
  <<3241, 3241>>, <<3252, 3252>>, <<3258, 3259>>, <<3269, 3269>>, <<3273, 3273>>,
  <<3278, 3284>>, <<3287, 3292>>, <<3295, 3295>>, <<3300, 3301>>, <<3312, 3312>>,
  <<3315, 3327>>, <<3341, 3341>>, <<3345, 3345>>, <<3397, 3397>>, <<3401, 3401>>,
  <<3408, 3411>>, <<3428, 3429>>, <<3456, 3456>>, <<3460, 3460>>, <<3479, 3481>>,
  <<3506, 3506>>, <<3516, 3516>>, <<3518, 3519>>, <<3527, 3529>>, <<3531, 3534>>,
  <<3541, 3541>>, <<3543, 3543>>, <<3552, 3557>>, <<3568, 3569>>, <<3573, 3584>>,
  <<3643, 3646>>, <<3676, 3712>>, <<3715, 3715>>, <<3717, 3717>>, <<3723, 3723>>,
  <<3748, 3748>>, <<3750, 3750>>, <<3774, 3775>>, <<3781, 3781>>, <<3783, 3783>>,
  <<3790, 3791>>, <<3802, 3803>>, <<3808, 3839>>, <<3912, 3912>>, <<3949, 3952>>,
  <<3992, 3992>>, <<4029, 4029>>, <<4045, 4045>>, <<4059, 4095>>, <<4294, 4294>>,
  <<4296, 4300>>, <<4302, 4303>>, <<4681, 4681>>, <<4686, 4687>>, <<4695, 4695>>,
  <<4697, 4697>>, <<4702, 4703>>, <<4745, 4745>>, <<4750, 4751>>, <<4785, 4785>>,
  <<4790, 4791>>, <<4799, 4799>>, <<4801, 4801>>, <<4806, 4807>>, <<4823, 4823>>,
  <<4881, 4881>>, <<4886, 4887>>, <<4955, 4956>>, <<4989, 4991>>, <<5018, 5023>>,
  <<5110, 5111>>, <<5118, 5119>>, <<5760, 5760>>, <<5789, 5791>>, <<5881, 5887>>,
  <<5910, 5918>>, <<5943, 5951>>, <<5972, 5983>>, <<5997, 5997>>, <<6001, 6001>>,
  <<6004, 6015>>, <<6110, 6111>>, <<6122, 6127>>, <<6138, 6143>>, <<6158, 6158>>,
  <<6170, 6175>>, <<6265, 6271>>, <<6315, 6319>>, <<6390, 6399>>, <<6431, 6431>>,
  <<6444, 6447>>, <<6460, 6463>>, <<6465, 6467>>, <<6510, 6511>>, <<6517, 6527>>,
  <<6572, 6575>>, <<6602, 6607>>, <<6619, 6621>>, <<6684, 6685>>, <<6751, 6751>>,
  <<6781, 6782>>, <<6794, 6799>>, <<6810, 6815>>, <<6830, 6831>>, <<6863, 6911>>,
  <<6989, 6991>>, <<7039, 7039>>, <<7156, 7163>>, <<7224, 7226>>, <<7242, 7244>>,
  <<7305, 7311>>, <<7355, 7356>>, <<7368, 7375>>, <<7419, 7423>>, <<7958, 7959>>,
  <<7966, 7967>>, <<8006, 8007>>, <<8014, 8015>>, <<8024, 8024>>, <<8026, 8026>>,
  <<8028, 8028>>, <<8030, 8030>>, <<8062, 8063>>, <<8117, 8117>>, <<8133, 8133>>,
  <<8148, 8149>>, <<8156, 8156>>, <<8176, 8177>>, <<8181, 8181>>, <<8191, 8207>>,
  <<8232, 8239>>, <<8287, 8303>>, <<8306, 8307>>, <<8335, 8335>>, <<8349, 8351>>,
  <<8385, 8399>>, <<8433, 8447>>, <<8588, 8591>>, <<9255, 9279>>, <<9291, 9311>>,
  <<11124, 11125>>, <<11158, 11158>>, <<11508, 11512>>, <<11558, 11558>>,
  <<11560, 11564>>, <<11566, 11567>>, <<11624, 11630>>, <<11633, 11646>>,
  <<11671, 11679>>, <<11687, 11687>>, <<11695, 11695>>, <<11703, 11703>>,
  <<11711, 11711>>, <<11719, 11719>>, <<11727, 11727>>, <<11735, 11735>>,
  <<11743, 11743>>, <<11870, 11903>>, <<11930, 11930>>, <<12020, 12031>>,
  <<12246, 12271>>, <<12284, 12288>>, <<12352, 12352>>, <<12439, 12440>>,
  <<12544, 12548>>, <<12592, 12592>>, <<12687, 12687>>, <<12772, 12783>>,
  <<12831, 12831>>, <<42125, 42127>>, <<42183, 42191>>, <<42540, 42559>>,
  <<42744, 42751>>, <<42955, 42959>>, <<42962, 42962>>, <<42964, 42964>>,
  <<42970, 42993>>, <<43053, 43055>>, <<43066, 43071>>, <<43128, 43135>>,
  <<43206, 43213>>, <<43226, 43231>>, <<43348, 43358>>, <<43389, 43391>>,
  <<43470, 43470>>, <<43482, 43485>>, <<43519, 43519>>, <<43575, 43583>>,
  <<43598, 43599>>, <<43610, 43611>>, <<43715, 43738>>, <<43767, 43776>>,
  <<43783, 43784>>, <<43791, 43792>>, <<43799, 43807>>, <<43815, 43815>>,
  <<43823, 43823>>, <<43884, 43887>>, <<44014, 44015>>, <<44026, 44031>>,
  <<55204, 55215>>, <<55239, 55242>>, <<55292, 63743>>, <<64110, 64111>>,
  <<64218, 64255>>, <<64263, 64274>>, <<64280, 64284>>, <<64311, 64311>>,
  <<64317, 64317>>, <<64319, 64319>>, <<64322, 64322>>, <<64325, 64325>>,
  <<64451, 64466>>, <<64912, 64913>>, <<64968, 64974>>, <<64976, 65007>>,
  <<65050, 65055>>, <<65107, 65107>>, <<65127, 65127>>, <<65132, 65135>>,
  <<65141, 65141>>, <<65277, 65280>>, <<65471, 65473>>, <<65480, 65481>>,
  <<65488, 65489>>, <<65496, 65497>>, <<65501, 65503>>, <<65511, 65511>>,
  <<65519, 65531>>, <<65534, 65535>>, <<65548, 65548>>, <<65575, 65575>>,
  <<65595, 65595>>, <<65598, 65598>>, <<65614, 65615>>, <<65630, 65663>>,
  <<65787, 65791>>, <<65795, 65798>>, <<65844, 65846>>, <<65935, 65935>>,
  <<65949, 65951>>, <<65953, 65999>>, <<66046, 66175>>, <<66205, 66207>>,
  <<66257, 66271>>, <<66300, 66303>>, <<66340, 66348>>, <<66379, 66383>>,
  <<66427, 66431>>, <<66462, 66462>>, <<66500, 66503>>, <<66518, 66559>>,
  <<66718, 66719>>, <<66730, 66735>>, <<66772, 66775>>, <<66812, 66815>>,
  <<66856, 66863>>, <<66916, 66926>>, <<66939, 66939>>, <<66955, 66955>>,
  <<66963, 66963>>, <<66966, 66966>>, <<66978, 66978>>, <<66994, 66994>>,
  <<67002, 67002>>, <<67005, 67071>>, <<67383, 67391>>, <<67414, 67423>>,
  <<67432, 67455>>, <<67462, 67462>>, <<67505, 67505>>, <<67515, 67583>>,
  <<67590, 67591>>, <<67593, 67593>>, <<67638, 67638>>, <<67641, 67643>>,
  <<67645, 67646>>, <<67670, 67670>>, <<67743, 67750>>, <<67760, 67807>>,
  <<67827, 67827>>, <<67830, 67834>>, <<67868, 67870>>, <<67898, 67902>>,
  <<67904, 67967>>, <<68024, 68027>>, <<68048, 68049>>, <<68100, 68100>>,
  <<68103, 68107>>, <<68116, 68116>>, <<68120, 68120>>, <<68150, 68151>>,
  <<68155, 68158>>, <<68169, 68175>>, <<68185, 68191>>, <<68256, 68287>>,
  <<68327, 68330>>, <<68343, 68351>>, <<68406, 68408>>, <<68438, 68439>>,
  <<68467, 68471>>, <<68498, 68504>>, <<68509, 68520>>, <<68528, 68607>>,
  <<68681, 68735>>, <<68787, 68799>>, <<68851, 68857>>, <<68904, 68911>>,
  <<68922, 69215>>, <<69247, 69247>>, <<69290, 69290>>, <<69294, 69295>>,
  <<69298, 69375>>, <<69416, 69423>>, <<69466, 69487>>, <<69514, 69551>>,
  <<69580, 69599>>, <<69623, 69631>>, <<69710, 69713>>, <<69750, 69758>>,
  <<69821, 69821>>, <<69827, 69839>>, <<69865, 69871>>, <<69882, 69887>>,
  <<69941, 69941>>, <<69960, 69967>>, <<70007, 70015>>, <<70112, 70112>>,
  <<70133, 70143>>, <<70162, 70162>>, <<70207, 70271>>, <<70279, 70279>>,
  <<70281, 70281>>, <<70286, 70286>>, <<70302, 70302>>, <<70314, 70319>>,
  <<70379, 70383>>, <<70394, 70399>>, <<70404, 70404>>, <<70413, 70414>>,
  <<70417, 70418>>, <<70441, 70441>>, <<70449, 70449>>, <<70452, 70452>>,
  <<70458, 70458>>, <<70469, 70470>>, <<70473, 70474>>, <<70478, 70479>>,
  <<70481, 70486>>, <<70488, 70492>>, <<70500, 70501>>, <<70509, 70511>>,
  <<70517, 70655>>, <<70748, 70748>>, <<70754, 70783>>, <<70856, 70863>>,
  <<70874, 71039>>, <<71094, 71095>>, <<71134, 71167>>, <<71237, 71247>>,
  <<71258, 71263>>, <<71277, 71295>>, <<71354, 71359>>, <<71370, 71423>>,
  <<71451, 71452>>, <<71468, 71471>>, <<71495, 71679>>, <<71740, 71839>>,
  <<71923, 71934>>, <<71943, 71944>>, <<71946, 71947>>, <<71956, 71956>>,
  <<71959, 71959>>, <<71990, 71990>>, <<71993, 71994>>, <<72007, 72015>>,
  <<72026, 72095>>, <<72104, 72105>>, <<72152, 72153>>, <<72165, 72191>>,
  <<72264, 72271>>, <<72355, 72367>>, <<72441, 72703>>, <<72713, 72713>>,
  <<72759, 72759>>, <<72774, 72783>>, <<72813, 72815>>, <<72848, 72849>>,
  <<72872, 72872>>, <<72887, 72959>>, <<72967, 72967>>, <<72970, 72970>>,
  <<73015, 73017>>, <<73019, 73019>>, <<73022, 73022>>, <<73032, 73039>>,
  <<73050, 73055>>, <<73062, 73062>>, <<73065, 73065>>, <<73103, 73103>>,
  <<73106, 73106>>, <<73113, 73119>>, <<73130, 73439>>, <<73465, 73647>>,
  <<73649, 73663>>, <<73714, 73726>>, <<74650, 74751>>, <<74863, 74863>>,
  <<74869, 74879>>, <<75076, 77711>>, <<77811, 77823>>, <<78895, 82943>>,
  <<83527, 92159>>, <<92729, 92735>>, <<92767, 92767>>, <<92778, 92781>>,
  <<92863, 92863>>, <<92874, 92879>>, <<92910, 92911>>, <<92918, 92927>>,
  <<92998, 93007>>, <<93018, 93018>>, <<93026, 93026>>, <<93048, 93052>>,
  <<93072, 93759>>, <<93851, 93951>>, <<94027, 94030>>, <<94088, 94094>>,
  <<94112, 94175>>, <<94181, 94191>>, <<94194, 94207>>, <<100344, 100351>>,
  <<101590, 101631>>, <<101641, 110575>>, <<110580, 110580>>, <<110588, 110588>>,
  <<110591, 110591>>, <<110883, 110927>>, <<110931, 110947>>, <<110952, 110959>>,
  <<111356, 113663>>, <<113771, 113775>>, <<113789, 113791>>, <<113801, 113807>>,
  <<113818, 113819>>, <<113824, 118527>>, <<118574, 118575>>, <<118599, 118607>>,
  <<118724, 118783>>, <<119030, 119039>>, <<119079, 119080>>, <<119155, 119162>>,
  <<119275, 119295>>, <<119366, 119519>>, <<119540, 119551>>, <<119639, 119647>>,
  <<119673, 119807>>, <<119893, 119893>>, <<119965, 119965>>, <<119968, 119969>>,
  <<119971, 119972>>, <<119975, 119976>>, <<119981, 119981>>, <<119994, 119994>>,
  <<119996, 119996>>, <<120004, 120004>>, <<120070, 120070>>, <<120075, 120076>>,
  <<120085, 120085>>, <<120093, 120093>>, <<120122, 120122>>, <<120127, 120127>>,
  <<120133, 120133>>, <<120135, 120137>>, <<120145, 120145>>, <<120486, 120487>>,
  <<120780, 120781>>, <<121484, 121498>>, <<121504, 121504>>, <<121520, 122623>>,
  <<122655, 122879>>, <<122887, 122887>>, <<122905, 122906>>, <<122914, 122914>>,
  <<122917, 122917>>, <<122923, 123135>>, <<123181, 123183>>, <<123198, 123199>>,
  <<123210, 123213>>, <<123216, 123535>>, <<123567, 123583>>, <<123642, 123646>>,
  <<123648, 124895>>, <<124903, 124903>>, <<124908, 124908>>, <<124911, 124911>>,
  <<124927, 124927>>, <<125125, 125126>>, <<125143, 125183>>, <<125260, 125263>>,
  <<125274, 125277>>, <<125280, 126064>>, <<126133, 126208>>, <<126270, 126463>>,
  <<126468, 126468>>, <<126496, 126496>>, <<126499, 126499>>, <<126501, 126502>>,
  <<126504, 126504>>, <<126515, 126515>>, <<126520, 126520>>, <<126522, 126522>>,
  <<126524, 126529>>, <<126531, 126534>>, <<126536, 126536>>, <<126538, 126538>>,
  <<126540, 126540>>, <<126544, 126544>>, <<126547, 126547>>, <<126549, 126550>>,
  <<126552, 126552>>, <<126554, 126554>>, <<126556, 126556>>, <<126558, 126558>>,
  <<126560, 126560>>, <<126563, 126563>>, <<126565, 126566>>, <<126571, 126571>>,
  <<126579, 126579>>, <<126584, 126584>>, <<126589, 126589>>, <<126591, 126591>>,
  <<126602, 126602>>, <<126620, 126624>>, <<126628, 126628>>, <<126634, 126634>>,
  <<126652, 126703>>, <<126706, 126975>>, <<127020, 127023>>, <<127124, 127135>>,
  <<127151, 127152>>, <<127168, 127168>>, <<127184, 127184>>, <<127222, 127231>>,
  <<127406, 127461>>, <<127491, 127503>>, <<127548, 127551>>, <<127561, 127567>>,
  <<127570, 127583>>, <<127590, 127743>>, <<128728, 128732>>, <<128749, 128751>>,
  <<128765, 128767>>, <<128884, 128895>>, <<128985, 128991>>, <<129004, 129007>>,
  <<129009, 129023>>, <<129036, 129039>>, <<129096, 129103>>, <<129114, 129119>>,
  <<129160, 129167>>, <<129198, 129199>>, <<129202, 129279>>, <<129620, 129631>>,
  <<129646, 129647>>, <<129653, 129655>>, <<129661, 129663>>, <<129671, 129679>>,
  <<129709, 129711>>, <<129723, 129727>>, <<129734, 129743>>, <<129754, 129759>>,
  <<129768, 129775>>, <<129783, 129791>>, <<129939, 129939>>, <<129995, 130031>>,
  <<130042, 131071>>, <<173792, 173823>>, <<177977, 177983>>, <<178206, 178207>>,
  <<183970, 183983>>, <<191457, 194559>>, <<195102, 196607>>, <<201547, 917759>>,
  <<918000, 1114111>>
  >>

IsPrintable(c) ==
  ~\E i \in 1..Len(Unprintable) : Unprintable[i][1] <= c /\ c <= Unprintable[i][2]

\* one code point of a str literal: the printable ones stay as they are, the others
\* are written \xhh, \uhhhh or \Uhhhhhhhh by their size
EscPoint(c, q) ==
  IF c < 128 THEN EscCommon(c, q)
  ELSE IF IsPrintable(c) THEN <<c>>
  ELSE IF c < 256 THEN HexEsc(c)
  ELSE IF c < 65536 THEN UEsc(c)
  ELSE UEsc8(c)

RECURSIVE EscBytes(_, _)
EscBytes(b, q) == IF b = <<>> THEN <<>> ELSE EscByte(Head(b), q) \o EscBytes(Tail(b), q)

RECURSIVE EscPoints(_, _)
EscPoints(s, q) == IF s = <<>> THEN <<>> ELSE EscPoint(Head(s), q) \o EscPoints(Tail(s), q)

Repr(x) ==
  IF x.t = "bytes" THEN <<98, QuoteOf(x.v)>> \o EscBytes(x.v, QuoteOf(x.v)) \o <<QuoteOf(x.v)>>
  ELSE IF x.t = "str" THEN <<QuoteOf(x.v)>> \o EscPoints(x.v, QuoteOf(x.v)) \o <<QuoteOf(x.v)>>
  ELSE IF x.t = "int" THEN IntStr(x.v[1])
  ELSE FloatRepr(x.v[1])

\* str(args) for args = (data,)
StrArgs(data) == PyStr(<<40>> \o Repr(data) \o <<44, 41>>)

(***************************************************************************)
(* Key names                                                                *)
(***************************************************************************)
\* "Cache.store": method.__qualname__
QualName == <<67, 97, 99, 104, 101, 46, 115, 116, 111, 114, 101>>
\* "Cache.store:inputs"
InputKey == QualName \o <<58, 105, 110, 112, 117, 116, 115>>
\* "Cache.store:outputs"
OutputKey == QualName \o <<58, 111, 117, 116, 112, 117, 116, 115>>
\* "cache:" + url
CacheKey(url) == <<99, 97, 99, 104, 101, 58>> \o url
\* "count:" + url
CountKey(url) == <<99, 111, 117, 110, 116, 58>> \o url

\* str(uuid.uuid4()): the i-th identifier drawn, 36 characters; identifiers never
\* repeat (a collision of two random 122-bit draws is not modelled)
Uuid(i) == [j \in 1..36 |->
              IF j \in {9, 14, 19, 24} THEN 45
              ELSE IF j = 8 THEN HexDigit(i % 16)
              ELSE IF j = 7 THEN HexDigit((i \div 16) % 16)
              ELSE IF j = 15 THEN 52
              ELSE IF j = 20 THEN 56
              ELSE 48]

(***************************************************************************)
(* The Redis database: a function from the keys present to their values.    *)
(* ttl is the number of seconds left, -1 for a key that does not expire.    *)
(***************************************************************************)
StringVal(b, ttl) == [type |-> "string", val |-> b, items |-> <<>>, ttl |-> ttl]
ListVal(items) == [type |-> "list", val |-> <<>>, items |-> items, ttl |-> -1]

EmptyDb == [k \in {} |-> StringVal(<<>>, -1)]

Put(db, k, x) == [j \in DOMAIN db \cup {k} |-> IF j = k THEN x ELSE db[j]]

Present(db, k) == k \in DOMAIN db

\* GET
RGet(db, k) ==
  IF ~Present(db, k) THEN PyNone
  ELSE IF db[k].type # "string" THEN Raised("ResponseError")
  ELSE PyBytes(db[k].val)

\* SET: replaces whatever the key held, without expiry
RSet(db, k, b) == Put(db, k, StringVal(b, -1))

\* SETEX
RSetex(db, k, seconds, b) == Put(db, k, StringVal(b, seconds))

\* INCR: an absent key counts from 0; the key keeps its expiry (the keys the program
\* increments hold nothing but what INCR wrote)
RIncr(db, k) ==
  IF ~Present(db, k) THEN Put(db, k, StringVal(IntStr(1), -1))
  ELSE Put(db, k, StringVal(IntStr(ParseInt(db[k].val).v[1] + 1), db[k].ttl))

\* RPUSH: appends at the tail, creating the list (the keys the program pushes to hold
\* nothing but lists)
RRpush(db, k, b) ==
  IF ~Present(db, k) THEN Put(db, k, ListVal(<<b>>))
  ELSE Put(db, k, ListVal(Append(db[k].items, b)))

\* LRANGE key 0 -1
RLrange(db, k) == IF Present(db, k) /\ db[k].type = "list" THEN db[k].items ELSE <<>>

\* DEL
RDelete(db, ks) == [j \in DOMAIN db \ ks |-> db[j]]

\* EXISTS
RExists(db, k) == IF Present(db, k) THEN 1 ELSE 0

\* TTL: -2 for an absent key, -1 for a key without expiry
RTtl(db, k) == IF Present(db, k) THEN db[k].ttl ELSE -2

\* FLUSHDB
RFlushdb(db) == EmptyDb

\* one second passes: the keys whose time is up are gone
Expire(db) ==
  [j \in {k \in DOMAIN db : db[k].ttl # 1} |->
     IF db[j].ttl > 1 THEN [db[j] EXCEPT !.ttl = db[j].ttl - 1] ELSE db[j]]

(***************************************************************************)
(* Inputs                                                                   *)
(***************************************************************************)
\* payloads of the store calls: b"hi", "é", 42, 1.5, and a text with a lone
\* surrogate, which the client cannot encode (its SET raises)
StorePayloads == {PyBytes(<<104, 105>>), PyStr(<<233>>), PyInt(42), PyFloat(3),
                  PyStr(<<55296>>)}

\* the payloads of the round-trip runs: byte strings over '1', '-', ' ', 'a', 0xC3,
\* 0xA9, texts over '1', 'a', U+00E9, U+20AC, U+1F600, the unprintable U+200B and
\* the lone surrogate U+D800, both up to MaxLen long, and the integers and the
\* multiples of 0.5 up to MaxAbs
ByteAlphabet == {49, 45, 32, 97, 195, 169}
PointAlphabet == {49, 97, 233, 8364, 128512, 8203, 55296}
SeqsUpTo(A, n) == UNION {[1..k -> A] : k \in 0..n}
Payloads ==
  {PyBytes(b) : b \in SeqsUpTo(ByteAlphabet, MaxLen)}
    \cup {PyStr(t) : t \in SeqsUpTo(PointAlphabet, MaxLen)}
    \cup {PyInt(n) : n \in -MaxAbs..MaxAbs}
    \cup {PyFloat(n) : n \in -MaxAbs..MaxAbs}

\* the payloads of the runs that interleave the two modules
FewPayloads == {PyInt(42), PyStr(<<55296>>)}

\* the payloads of the concurrent callers
ConcPayloads == {PyInt(42), PyBytes(<<104, 105>>), PyStr(<<55296>>)}

\* "a", "b"
Urls == {<<97>>, <<98>>}
OneUrl == {<<97>>}

\* page bodies the upstream serves: "" and "é"
Bodies == {<<>>, <<233>>}

\* what requests.get does for one call: a page, or a RequestException
Outcomes == [ok : {TRUE}, body : Bodies] \cup {[ok |-> FALSE, body |-> <<>>]}
FewOutcomes == {[ok |-> TRUE, body |-> <<233>>], [ok |-> FALSE, body |-> <<>>]}
OkOutcomes == {[ok |-> TRUE, body |-> <<233>>]}

\* "non-existent-key"
NoKey == <<110, 111, 110, 45, 101, 120, 105, 115, 116, 101, 110, 116, 45, 107, 101, 121>>

\* @cache_with_expiration(expiration=10)
Expiration == 10
\* redis_client.setex(cache_key, 10, result) in get_page_simple
SimpleExpiration == 10

VARIABLES
  redis,      \* the database both modules talk to
  issued,     \* how many uuid4 identifiers have been drawn
  ret,        \* what the last call returned (or raised)
  calls,      \* history: the store calls made since the Cache was constructed, in the
              \* order they ended, and whether no other call was running then
  fetches,    \* history: per URL, the fetch calls made since its counter was absent
  filled,     \* history: per URL, what the fetch that wrote the cache entry returned
  returned,   \* history: the keys store has returned
  lapsed,     \* history: per URL, how often a cache entry of this database ran out of time
  procs,      \* the concurrent callers: where each stands, and its locals
  pages,      \* history: the fetch calls concurrent callers made, in the order they
              \* ended, with what each found in the cache and what it fetched
  twin        \* the database and the returns of the same calls made on a Cache whose
              \* store is decorated call_history(count_calls(store))

vars == <<redis, issued, ret, calls, fetches, filled, returned, lapsed, procs, twin,
          pages>>

Procs == 1..NumProcs

RECURSIVE SumOver(_, _)
SumOver(f, S) == IF S = {} THEN 0
                 ELSE LET x == CHOOSE y \in S : TRUE IN f[x] + SumOver(f, S \ {x})

\* the fetch calls made so far
Fetched == SumOver(fetches, Urls)

Ret(op, key, fn, val, invoked, out) ==
  [op |-> op, key |-> key, fn |-> fn, val |-> val, invoked |-> invoked, out |-> out]

NoRet == Ret("none", <<>>, "None", PyNone, FALSE, <<>>)

Idle == [pc |-> "idle", arg |-> PyNone, key |-> <<>>]

Init ==
  /\ redis = EmptyDb
  /\ issued = 0
  /\ ret = NoRet
  /\ calls = <<>>
  /\ fetches = [u \in Urls |-> 0]
  /\ filled = [u \in Urls |-> PyNone]
  /\ returned = {}
  /\ lapsed = [u \in Urls |-> 0]
  /\ procs = [p \in Procs |-> Idle]
  /\ twin = [db |-> EmptyDb, out |-> <<>>]
  /\ pages = <<>>

(***************************************************************************)
(* exercise.py: the steps of one decorated store call                       *)
(***************************************************************************)
\* as CountStep, the counter set to 1 instead of incremented
CountStepSetOne(db) == RSet(db, QualName, IntStr(1))

\* as CountStep, counting only the first call (the key set when it is absent)
CountStepOnce(db) == IF Present(db, QualName) THEN db ELSE RSet(db, QualName, IntStr(1))

\* count_calls.wrapper: self._redis.incr(key)
CountStep(db) == RIncr(db, QualName)

\* as InputStep, pushing at the head of the list (lpush)
InputStepFront(db, data) ==
  Put(db, InputKey, ListVal(<<Encode(StrArgs(data))>> \o RLrange(db, InputKey)))

\* call_history.wrapper: self._redis.rpush(input_key, str(args))
InputStep(db, data) == RRpush(db, InputKey, Encode(StrArgs(data)))

\* Cache.store: self._redis.set(key, data); the client raises on a payload it
\* cannot encode and nothing is sent
SetRaises(data) == ~CanEncode(data)
SetStep(db, key, data) == IF SetRaises(data) THEN db ELSE RSet(db, Utf8Encode(key), Encode(data))

\* as OutputStep, pushing at the head of the list (lpush)
OutputStepFront(db, key) ==
  Put(db, OutputKey, ListVal(<<Encode(PyStr(key))>> \o RLrange(db, OutputKey)))

\* call_history.wrapper: self._redis.rpush(output_key, output)
OutputStep(db, key) == RRpush(db, OutputKey, Encode(PyStr(key)))

\* as StoreDb, counting the call once the method has returned
StoreDbCountLast(db, key, data) ==
  LET d2 == InputStep(db, data)
      d3 == SetStep(d2, key, data)
  IN IF SetRaises(data) THEN d3 ELSE CountStep(OutputStep(d3, key))

\* as StoreDb, recording an output whether or not the method raised
StoreDbOutputAlways(db, key, data) ==
  OutputStep(SetStep(InputStep(CountStep(db), data), key, data), key)

\* the whole call, in the order count_calls(call_history(store)) runs it
StoreDb(db, key, data) ==
  LET d1 == CountStep(db)
      d2 == InputStep(d1, data)
      d3 == SetStep(d2, key, data)
  IN IF SetRaises(data) THEN d3 ELSE OutputStep(d3, key)

StoreResult(key, data) ==
  IF SetRaises(data) THEN Raised("UnicodeEncodeError") ELSE PyStr(key)

\* the whole call with the decorators nested the other way round,
\* call_history(count_calls(store)): the arguments are recorded before the call is
\* counted; either wrapper hands on what the method returns or raises
StoreDbSwapped(db, key, data) ==
  LET d1 == InputStep(db, data)
      d2 == CountStep(d1)
      d3 == SetStep(d2, key, data)
  IN IF SetRaises(data) THEN d3 ELSE OutputStep(d3, key)

\* Cache(): redis.Redis() and flushdb()
Construct ==
  /\ redis' = RFlushdb(redis)
  /\ calls' = <<>>
  /\ fetches' = [u \in Urls |-> 0]
  /\ filled' = [u \in Urls |-> PyNone]
  /\ lapsed' = [u \in Urls |-> 0]
  /\ ret' = Ret("Cache", <<>>, "None", PyNone, FALSE, <<>>)
  /\ twin' = [db |-> RFlushdb(twin.db), out |-> <<>>]
  /\ UNCHANGED <<issued, returned, procs, pages>>

\* cache.store(data)
Store(data) ==
  /\ issued < MaxKeys
  /\ issued' = issued + 1
  /\ redis' = StoreDb(redis, Uuid(issued + 1), data)
  /\ ret' = Ret("store", <<>>, "None", StoreResult(Uuid(issued + 1), data), FALSE, <<>>)
  /\ calls' = Append(calls, [arg |-> data, out |-> StoreResult(Uuid(issued + 1), data),
                             alone |-> TRUE])
  /\ returned' = IF SetRaises(data) THEN returned ELSE returned \cup {Uuid(issued + 1)}
  /\ twin' = [db |-> StoreDbSwapped(twin.db, Uuid(issued + 1), data),
              out |-> Append(twin.out, StoreResult(Uuid(issued + 1), data))]
  /\ UNCHANGED <<fetches, filled, lapsed, procs, pages>>

\* as GetValue, decoding what no coercion function was given for
GetValueDecoding(db, key, fn) ==
  LET data == RGet(db, Utf8Encode(key))
  IN IF IsRaised(data) THEN data
     ELSE IF data = PyNone THEN PyNone
     ELSE IF fn # "None" THEN ApplyFn(fn, data.v)
     ELSE Decode(data.v)

\* as GetValue, without the test for an absent key
GetValueUnchecked(db, key, fn) ==
  LET data == RGet(db, Utf8Encode(key))
  IN IF IsRaised(data) THEN data
     ELSE IF fn # "None" THEN ApplyFn(fn, data.v)
     ELSE data

\* Cache.get
GetValue(db, key, fn) ==
  LET data == RGet(db, Utf8Encode(key))
  IN IF IsRaised(data) THEN data
     ELSE IF data = PyNone THEN PyNone
     ELSE IF fn # "None" THEN ApplyFn(fn, data.v)
     ELSE data

\* Cache.get_str
GetStrValue(db, key) == GetValue(db, key, "decode")

\* Cache.get_int
GetIntValue(db, key) == GetValue(db, key, "int")

\* the keys a caller asks for: every identifier store may have returned, the next
\* one, the instrumentation keys, and a key nobody wrote
AskedKeys == {Uuid(i) : i \in 1..(issued + 1)} \cup {QualName, InputKey, OutputKey, NoKey}

\* as Get, removing the key it read (GETDEL)
GetConsuming(key, fn) ==
  /\ ret' = Ret("get", key, fn, GetValue(redis, key, fn), FALSE, <<>>)
  /\ redis' = RDelete(redis, {Utf8Encode(key)})
  /\ UNCHANGED <<issued, calls, fetches, filled, returned, lapsed, procs, twin, pages>>

Get(key, fn) ==
  /\ ret' = Ret("get", key, fn, GetValue(redis, key, fn), FALSE, <<>>)
  /\ UNCHANGED <<redis, issued, calls, fetches, filled, returned, lapsed, procs, twin, pages>>

GetStr(key) ==
  /\ ret' = Ret("get_str", key, "None", GetStrValue(redis, key), FALSE, <<>>)
  /\ UNCHANGED <<redis, issued, calls, fetches, filled, returned, lapsed, procs, twin, pages>>

GetInt(key) ==
  /\ ret' = Ret("get_int", key, "None", GetIntValue(redis, key), FALSE, <<>>)
  /\ UNCHANGED <<redis, issued, calls, fetches, filled, returned, lapsed, procs, twin, pages>>

(***************************************************************************)
(* exercise.py: replay                                                      *)
(***************************************************************************)
\* call_count = redis_instance.get(method_name), 0 when absent, else int(...)
ReplayCount(db) ==
  LET c == RGet(db, QualName) IN IF c = PyNone THEN PyInt(0) ELSE ParseInt(c.v)

Min(a, b) == IF a < b THEN a ELSE b

\* f"{method_name} was called {call_count} times:"
HeaderOf(call_count) ==
  QualName \o <<32, 119, 97, 115, 32, 99, 97, 108, 108, 101, 100, 32>>
           \o IntStr(call_count.v[1]) \o <<32, 116, 105, 109, 101, 115, 58>>

\* f"{method_name}(*{input_str}) -> {output_str}"
ReplayLine(input, output) ==
  QualName \o <<40, 42>> \o Decode(input).v \o <<41, 32, 45, 62, 32>> \o Decode(output).v

\* as ReplayPrinted, pairing the latest input with the latest output
ReplayPrintedFromEnd(call_count, inputs, outputs) ==
  LET n == Min(Len(inputs), Len(outputs))
  IN <<HeaderOf(call_count)>> \o
     [i \in 1..n |-> ReplayLine(inputs[Len(inputs) - n + i], outputs[Len(outputs) - n + i])]

\* what replay prints from the three answers it got: the header, then one line per
\* pair of zip(inputs, outputs)
ReplayPrinted(call_count, inputs, outputs) ==
  <<HeaderOf(call_count)>> \o
    [i \in 1..Min(Len(inputs), Len(outputs)) |-> ReplayLine(inputs[i], outputs[i])]

\* the lines replay prints when nothing else runs between its three reads
ReplayLines(db) ==
  ReplayPrinted(ReplayCount(db), RLrange(db, InputKey), RLrange(db, OutputKey))

\* as Replay, consuming the history it prints
ReplayDraining ==
  /\ ret' = Ret("replay", <<>>, "None", PyNone, FALSE, ReplayLines(redis))
  /\ redis' = RDelete(redis, {InputKey, OutputKey})
  /\ UNCHANGED <<issued, calls, fetches, filled, returned, lapsed, procs, twin, pages>>

\* a replay call with no step of another caller between its three reads (the reads
\* one by one are CallReplay, ReadInputs and ReadOutputs)
Replay ==
  /\ ret' = Ret("replay", <<>>, "None", PyNone, FALSE, ReplayLines(redis))
  /\ UNCHANGED <<redis, issued, calls, fetches, filled, returned, lapsed, procs, twin, pages>>

(***************************************************************************)
(* web.py                                                                   *)
(***************************************************************************)
\* get_page's body: response.text, or the error text when requests raises
\* f"Error: Unable to fetch {url}"
ErrorText(url) ==
  <<69, 114, 114, 111, 114, 58, 32, 85, 110, 97, 98, 108, 101, 32, 116, 111, 32,
    102, 101, 116, 99, 104, 32>> \o url

PageBody(url, o) == IF o.ok THEN PyStr(o.body) ELSE PyStr(ErrorText(url))

\* if cached_result: a non-empty byte string
Truthy(x) == x # PyNone /\ x.v # <<>>

\* cache_with_expiration.wrapper: the entry it reads after counting the access
CachedResult(db, url) == RGet(RIncr(db, CountKey(url)), CacheKey(url))

IsHit(db, url) == Truthy(CachedResult(db, url))

\* as PageDb, counting the access only when the page is fetched
PageDbMissOnly(db, url, o) ==
  IF IsHit(db, url) THEN db
  ELSE RSetex(RIncr(db, CountKey(url)), CacheKey(url), Expiration, Encode(PageBody(url, o)))

\* as PageDb, the entry written with set, without expiry
PageDbNoExpiry(db, url, o) ==
  LET d1 == RIncr(db, CountKey(url))
  IN IF IsHit(db, url) THEN d1 ELSE RSet(d1, CacheKey(url), Encode(PageBody(url, o)))

\* cache_with_expiration.wrapper around get_page
PageDb(db, url, o) ==
  LET d1 == RIncr(db, CountKey(url))
  IN IF IsHit(db, url) THEN d1
     ELSE RSetex(d1, CacheKey(url), Expiration, Encode(PageBody(url, o)))

PageResult(db, url, o) ==
  IF IsHit(db, url) THEN Decode(CachedResult(db, url).v) ELSE PageBody(url, o)

GetPage(url, o) ==
  /\ Fetched < MaxFetch
  /\ redis' = PageDb(redis, url, o)
  /\ ret' = Ret("get_page", url, "None", PageResult(redis, url, o), ~IsHit(redis, url), <<>>)
  /\ fetches' = [fetches EXCEPT ![url] = @ + 1]
  /\ filled' = IF IsHit(redis, url) THEN filled
               ELSE [filled EXCEPT ![url] = PageResult(redis, url, o)]
  /\ UNCHANGED <<issued, calls, returned, lapsed, procs, twin, pages>>

\* get_page_simple: the entry is written only when the request succeeds
SimpleDb(db, url, o) ==
  LET d1 == RIncr(db, CountKey(url))
  IN IF IsHit(db, url) \/ ~o.ok THEN d1
     ELSE RSetex(d1, CacheKey(url), SimpleExpiration, Encode(PageBody(url, o)))

\* get_page_simple returns the entry decoded, the response text, or the error text
SimpleResult(db, url, o) ==
  IF IsHit(db, url) THEN Decode(CachedResult(db, url).v)
  ELSE IF o.ok THEN PyStr(o.body)
  ELSE PyStr(ErrorText(url))

\* a call with no step of another caller between its round trips (the round trips
\* one by one are CallSimple, LookupSimple and WriteSimple or ExceptSimple)
GetPageSimple(url, o) ==
  /\ Fetched < MaxFetch
  /\ redis' = SimpleDb(redis, url, o)
  /\ ret' = Ret("get_page_simple", url, "None", SimpleResult(redis, url, o),
                ~IsHit(redis, url), <<>>)
  /\ fetches' = [fetches EXCEPT ![url] = @ + 1]
  /\ filled' = IF IsHit(redis, url) \/ ~o.ok THEN filled
               ELSE [filled EXCEPT ![url] = SimpleResult(redis, url, o)]
  /\ UNCHANGED <<issued, calls, returned, lapsed, procs, twin, pages>>

\* get_access_count: int(count) if count else 0
AccessCount(db, url) ==
  LET count == RGet(db, CountKey(url))
  IN IF Truthy(count) THEN ParseInt(count.v) ELSE PyInt(0)

GetAccessCount(url) ==
  /\ ret' = Ret("get_access_count", url, "None", AccessCount(redis, url), FALSE, <<>>)
  /\ UNCHANGED <<redis, issued, calls, fetches, filled, returned, lapsed, procs, twin, pages>>

\* redis_client.keys("cache:*")
CacheKeys(db) == {k \in DOMAIN db : Len(k) >= 6 /\ SubSeq(k, 1, 6) = CacheKey(<<>>)}

\* clear_cache(url): an empty url clears like None does
ClearDb(db, url) ==
  IF url # <<>> THEN RDelete(db, {CacheKey(url)}) ELSE RDelete(db, CacheKeys(db))

\* a call with no step of another caller between its KEYS and its DEL (the two one
\* by one are CallClear and DeleteListed)
ClearCache(url) ==
  /\ redis' = ClearDb(redis, url)
  /\ ret' = Ret("clear_cache", url, "None", PyNone, FALSE, <<>>)
  /\ UNCHANGED <<issued, calls, fetches, filled, returned, lapsed, procs, twin, pages>>

\* a second passes
Tick ==
  /\ \E k \in DOMAIN redis : redis[k].ttl > 0
  /\ redis' = Expire(redis)
  /\ lapsed' = [u \in Urls |-> IF RTtl(redis, CacheKey(u)) = 1 THEN lapsed[u] + 1 ELSE lapsed[u]]
  /\ UNCHANGED <<issued, ret, calls, fetches, filled, returned, procs, twin, pages>>

(***************************************************************************)
(* Specifications                                                           *)
(***************************************************************************)
\* the object store, one call at a time
Next ==
  \/ Construct
  \/ \E data \in StorePayloads : Store(data)
  \/ \E key \in AskedKeys, fn \in Fns : Get(key, fn)
  \/ \E key \in AskedKeys : GetStr(key)
  \/ \E key \in AskedKeys : GetInt(key)
  \/ Replay

Spec == Init /\ [][Next]_vars

\* the page cache, one call at a time
NextFetch ==
  \/ \E url \in Urls, o \in Outcomes : GetPage(url, o)
  \/ \E url \in Urls, o \in Outcomes : GetPageSimple(url, o)
  \/ \E url \in Urls : GetAccessCount(url)
  \/ \E url \in Urls \cup {<<>>} : ClearCache(url)
  \/ Tick

SpecFetch == Init /\ [][NextFetch]_vars

\* round trips: one store of any payload on the fresh Cache, then reads
NextRT ==
  \/ issued = 0 /\ \E data \in Payloads : Store(data)
  \/ \E key \in AskedKeys, fn \in Fns : Get(key, fn)
  \/ \E key \in AskedKeys : GetStr(key)
  \/ \E key \in AskedKeys : GetInt(key)

SpecRT == Init /\ [][NextRT]_vars

\* both modules on the one database, one call at a time
NextAll ==
  \/ Construct
  \/ \E data \in FewPayloads : Store(data)
  \/ \E key \in {QualName, NoKey} : Get(key, "None")
  \/ Replay
  \/ \E url \in OneUrl, o \in FewOutcomes : GetPage(url, o)
  \/ Tick

SpecAll == Init /\ [][NextAll]_vars

(***************************************************************************)
(* Concurrent callers of store: a step is one round trip to the database,   *)
(* with the Python code that runs before it.                                *)
(***************************************************************************)
\* the store calls under way
InFlight == Cardinality({p \in Procs : procs[p].pc \in {"input", "set", "output"}})

\* as CallStore, without the increment
CallStoreUncounted(p, data) ==
  /\ procs[p].pc = "idle"
  /\ Len(calls) + InFlight < MaxKeys
  /\ procs' = [procs EXCEPT ![p] = [pc |-> "input", arg |-> data, key |-> <<>>]]
  /\ UNCHANGED <<redis, issued, ret, calls, fetches, filled, returned, lapsed, twin, pages>>

\* the call enters count_calls.wrapper and counts itself
CallStore(p, data) ==
  /\ procs[p].pc = "idle"
  /\ Len(calls) + InFlight < MaxKeys
  /\ redis' = CountStep(redis)
  /\ procs' = [procs EXCEPT ![p] = [pc |-> "input", arg |-> data, key |-> <<>>]]
  /\ UNCHANGED <<issued, ret, calls, fetches, filled, returned, lapsed, twin, pages>>

\* call_history.wrapper records the arguments
PushInput(p) ==
  /\ procs[p].pc = "input"
  /\ redis' = InputStep(redis, procs[p].arg)
  /\ procs' = [procs EXCEPT ![p].pc = "set"]
  /\ UNCHANGED <<issued, ret, calls, fetches, filled, returned, lapsed, twin, pages>>

\* Cache.store draws the key and sets it; when the SET raises the call is over
SetKey(p) ==
  /\ procs[p].pc = "set"
  /\ issued' = issued + 1
  /\ redis' = SetStep(redis, Uuid(issued + 1), procs[p].arg)
  /\ IF SetRaises(procs[p].arg)
     THEN /\ procs' = [procs EXCEPT ![p] = Idle]
          /\ ret' = Ret("store", <<>>, "None", StoreResult(Uuid(issued + 1), procs[p].arg),
                        FALSE, <<>>)
          /\ calls' = Append(calls, [arg |-> procs[p].arg,
                                     out |-> StoreResult(Uuid(issued + 1), procs[p].arg),
                                     alone |-> InFlight = 1])
     ELSE /\ procs' = [procs EXCEPT ![p].pc = "output", ![p].key = Uuid(issued + 1)]
          /\ UNCHANGED <<ret, calls>>
  /\ UNCHANGED <<fetches, filled, returned, lapsed, twin, pages>>

\* call_history.wrapper records the key and the call returns it
PushOutput(p) ==
  /\ procs[p].pc = "output"
  /\ redis' = OutputStep(redis, procs[p].key)
  /\ procs' = [procs EXCEPT ![p] = Idle]
  /\ ret' = Ret("store", <<>>, "None", PyStr(procs[p].key), FALSE, <<>>)
  /\ calls' = Append(calls, [arg |-> procs[p].arg, out |-> PyStr(procs[p].key),
                             alone |-> InFlight = 1])
  /\ returned' = returned \cup {procs[p].key}
  /\ UNCHANGED <<issued, fetches, filled, lapsed, twin, pages>>

\* replay reads the counter
CallReplay(p) ==
  /\ procs[p].pc = "idle"
  /\ procs' = [procs EXCEPT ![p] = [pc |-> "inputs", call_count |-> ReplayCount(redis),
                                    inputs |-> <<>>]]
  /\ UNCHANGED <<redis, issued, ret, calls, fetches, filled, returned, lapsed, twin, pages>>

\* replay reads the input list
ReadInputs(p) ==
  /\ procs[p].pc = "inputs"
  /\ procs' = [procs EXCEPT ![p].pc = "outputs", ![p].inputs = RLrange(redis, InputKey)]
  /\ UNCHANGED <<redis, issued, ret, calls, fetches, filled, returned, lapsed, twin, pages>>

\* replay reads the output list and prints
ReadOutputs(p) ==
  /\ procs[p].pc = "outputs"
  /\ procs' = [procs EXCEPT ![p] = Idle]
  /\ ret' = Ret("replay", <<>>, "None", PyNone, FALSE,
                ReplayPrinted(procs[p].call_count, procs[p].inputs,
                              RLrange(redis, OutputKey)))
  /\ UNCHANGED <<redis, issued, calls, fetches, filled, returned, lapsed, twin, pages>>

NextConc ==
  \/ \E p \in Procs, data \in ConcPayloads : CallStore(p, data)
  \/ \E p \in Procs : PushInput(p)
  \/ \E p \in Procs : SetKey(p)
  \/ \E p \in Procs : PushOutput(p)

SpecConc == Init /\ [][NextConc]_vars

\* the caller that replays while the others store (which of them it is makes no
\* difference, and a second reader next to it changes nothing either of them reads)
Reader == NumProcs

\* replay next to the store calls of concurrent callers
NextConcReplay ==
  \/ \E p \in Procs, data \in FewPayloads : CallStore(p, data)
  \/ \E p \in Procs : PushInput(p)
  \/ \E p \in Procs : SetKey(p)
  \/ \E p \in Procs : PushOutput(p)
  \/ CallReplay(Reader)
  \/ ReadInputs(Reader)
  \/ ReadOutputs(Reader)

SpecConcReplay == Init /\ [][NextConcReplay]_vars

(***************************************************************************)
(* Concurrent callers of get_page: a step is one round trip to the          *)
(* database, with the Python code that runs before it.                      *)
(***************************************************************************)
\* the call enters cache_with_expiration.wrapper and counts the access
CallPage(p, url) ==
  /\ procs[p].pc = "idle"
  /\ Fetched < MaxFetch
  /\ redis' = RIncr(redis, CountKey(url))
  /\ fetches' = [fetches EXCEPT ![url] = @ + 1]
  /\ procs' = [procs EXCEPT ![p] = [pc |-> "lookup", url |-> url, seen |-> PyNone,
                                    result |-> PyNone]]
  /\ UNCHANGED <<issued, ret, calls, filled, returned, lapsed, twin, pages>>

\* the wrapper reads the entry: a hit returns it decoded, on a miss get_page makes
\* the request, whose outcome is o
LookupPage(p, o) ==
  /\ procs[p].pc = "lookup"
  /\ LET url == procs[p].url
         cached_result == RGet(redis, CacheKey(url))
     IN IF Truthy(cached_result)
        THEN /\ procs' = [procs EXCEPT ![p] = Idle]
             /\ ret' = Ret("get_page", url, "None", Decode(cached_result.v), FALSE, <<>>)
             /\ pages' = Append(pages, [fn |-> "get_page", url |-> url,
                                        seen |-> cached_result, fetched |-> PyNone,
                                        wrote |-> FALSE, out |-> Decode(cached_result.v)])
        ELSE /\ procs' = [procs EXCEPT ![p].pc = "write", ![p].seen = cached_result,
                                       ![p].result = PageBody(url, o)]
             /\ UNCHANGED <<ret, pages>>
  /\ UNCHANGED <<redis, issued, calls, fetches, filled, returned, lapsed, twin>>

\* as WritePage, leaving alone an entry another caller wrote meanwhile (SET NX)
WritePageIfAbsent(p) ==
  /\ procs[p].pc = "write"
  /\ redis' = IF Present(redis, CacheKey(procs[p].url)) THEN redis
              ELSE RSetex(redis, CacheKey(procs[p].url), Expiration, Encode(procs[p].result))
  /\ procs' = [procs EXCEPT ![p] = Idle]
  /\ ret' = Ret("get_page", procs[p].url, "None", procs[p].result, TRUE, <<>>)
  /\ filled' = [filled EXCEPT ![procs[p].url] = procs[p].result]
  /\ pages' = Append(pages, [fn |-> "get_page", url |-> procs[p].url,
                             seen |-> procs[p].seen, fetched |-> procs[p].result,
                             wrote |-> TRUE, out |-> procs[p].result])
  /\ UNCHANGED <<issued, calls, fetches, returned, lapsed, twin>>

\* the wrapper writes the entry with setex and returns what get_page gave
WritePage(p) ==
  /\ procs[p].pc = "write"
  /\ redis' = RSetex(redis, CacheKey(procs[p].url), Expiration, Encode(procs[p].result))
  /\ procs' = [procs EXCEPT ![p] = Idle]
  /\ ret' = Ret("get_page", procs[p].url, "None", procs[p].result, TRUE, <<>>)
  /\ filled' = [filled EXCEPT ![procs[p].url] = procs[p].result]
  /\ pages' = Append(pages, [fn |-> "get_page", url |-> procs[p].url,
                             seen |-> procs[p].seen, fetched |-> procs[p].result,
                             wrote |-> TRUE, out |-> procs[p].result])
  /\ UNCHANGED <<issued, calls, fetches, returned, lapsed, twin>>

\* get_page_simple counts the access
CallSimple(p, url) ==
  /\ procs[p].pc = "idle"
  /\ Fetched < MaxFetch
  /\ redis' = RIncr(redis, CountKey(url))
  /\ fetches' = [fetches EXCEPT ![url] = @ + 1]
  /\ procs' = [procs EXCEPT ![p] = [pc |-> "lookup_simple", url |-> url, seen |-> PyNone,
                                    result |-> PyNone]]
  /\ UNCHANGED <<issued, ret, calls, filled, returned, lapsed, twin, pages>>

\* get_page_simple reads the entry: a hit returns it decoded; on a miss it makes the
\* request, whose outcome o comes after a wait
LookupSimple(p, o) ==
  /\ procs[p].pc = "lookup_simple"
  /\ LET url == procs[p].url
         cached_result == RGet(redis, CacheKey(url))
     IN IF Truthy(cached_result)
        THEN /\ procs' = [procs EXCEPT ![p] = Idle]
             /\ ret' = Ret("get_page_simple", url, "None", Decode(cached_result.v), FALSE,
                           <<>>)
             /\ pages' = Append(pages, [fn |-> "get_page_simple", url |-> url,
                                        seen |-> cached_result, fetched |-> PyNone,
                                        wrote |-> FALSE, out |-> Decode(cached_result.v)])
        ELSE /\ procs' = [procs EXCEPT ![p].pc = IF o.ok THEN "write_simple"
                                                 ELSE "except_simple",
                                       ![p].seen = cached_result,
                                       ![p].result = IF o.ok THEN PyStr(o.body)
                                                     ELSE PyStr(ErrorText(url))]
             /\ UNCHANGED <<ret, pages>>
  /\ UNCHANGED <<redis, issued, calls, fetches, filled, returned, lapsed, twin>>

\* the request of get_page_simple raised: it returns the error text, nothing written
ExceptSimple(p) ==
  /\ procs[p].pc = "except_simple"
  /\ procs' = [procs EXCEPT ![p] = Idle]
  /\ ret' = Ret("get_page_simple", procs[p].url, "None", procs[p].result, TRUE, <<>>)
  /\ pages' = Append(pages, [fn |-> "get_page_simple", url |-> procs[p].url,
                             seen |-> procs[p].seen, fetched |-> procs[p].result,
                             wrote |-> FALSE, out |-> procs[p].result])
  /\ UNCHANGED <<redis, issued, calls, fetches, filled, returned, lapsed, twin>>

\* get_page_simple writes the entry with setex and returns the response text
WriteSimple(p) ==
  /\ procs[p].pc = "write_simple"
  /\ redis' = RSetex(redis, CacheKey(procs[p].url), SimpleExpiration, Encode(procs[p].result))
  /\ procs' = [procs EXCEPT ![p] = Idle]
  /\ ret' = Ret("get_page_simple", procs[p].url, "None", procs[p].result, TRUE, <<>>)
  /\ filled' = [filled EXCEPT ![procs[p].url] = procs[p].result]
  /\ pages' = Append(pages, [fn |-> "get_page_simple", url |-> procs[p].url,
                             seen |-> procs[p].seen, fetched |-> procs[p].result,
                             wrote |-> TRUE, out |-> procs[p].result])
  /\ UNCHANGED <<issued, calls, fetches, returned, lapsed, twin>>

\* concurrent callers of the two fetch functions
NextConcFetch ==
  \/ \E p \in Procs, url \in Urls : CallPage(p, url)
  \/ \E p \in Procs, o \in Outcomes : LookupPage(p, o)
  \/ \E p \in Procs : WritePage(p)
  \/ \E p \in Procs, url \in Urls : CallSimple(p, url)
  \/ \E p \in Procs, o \in Outcomes : LookupSimple(p, o)
  \/ \E p \in Procs : WriteSimple(p)
  \/ \E p \in Procs : ExceptSimple(p)

SpecConcFetch == Init /\ [][NextConcFetch]_vars

(***************************************************************************)
(* Concurrent callers of clear_cache and get_cache_info, next to those of   *)
(* get_page: a step is one round trip to the database, and seconds pass     *)
(* between the steps.                                                       *)
(***************************************************************************)
\* clear_cache(url) deletes the entry of url; clear_cache() lists the entries first,
\* and is over when there are none
CallClear(p, url) ==
  /\ procs[p].pc = "idle"
  /\ IF url # <<>>
     THEN /\ redis' = RDelete(redis, {CacheKey(url)})
          /\ ret' = Ret("clear_cache", url, "None", PyNone, FALSE, <<>>)
          /\ UNCHANGED procs
     ELSE IF CacheKeys(redis) # {}
     THEN /\ procs' = [procs EXCEPT ![p] = [pc |-> "delete", url |-> url,
                                            cache_keys |-> CacheKeys(redis)]]
          /\ UNCHANGED <<redis, ret>>
     ELSE /\ ret' = Ret("clear_cache", url, "None", PyNone, FALSE, <<>>)
          /\ UNCHANGED <<redis, procs>>
  /\ UNCHANGED <<issued, calls, fetches, filled, returned, lapsed, twin, pages>>

\* clear_cache() deletes the keys it listed
DeleteListed(p) ==
  /\ procs[p].pc = "delete"
  /\ redis' = RDelete(redis, procs[p].cache_keys)
  /\ procs' = [procs EXCEPT ![p] = Idle]
  /\ ret' = Ret("clear_cache", procs[p].url, "None", PyNone, FALSE, <<>>)
  /\ UNCHANGED <<issued, calls, fetches, filled, returned, lapsed, twin, pages>>

\* as CallInfo, evicting the entry it asks about
CallInfoEvicting(p, url) ==
  /\ procs[p].pc = "idle"
  /\ LET is_cached == RExists(redis, CacheKey(url))
     IN procs' = [procs EXCEPT ![p] = [pc |-> IF is_cached # 0 THEN "ttl" ELSE "count",
                                       url |-> url, is_cached |-> is_cached, ttl |-> -1]]
  /\ redis' = RDelete(redis, {CacheKey(url)})
  /\ UNCHANGED <<issued, ret, calls, fetches, filled, returned, lapsed, twin, pages>>

\* get_cache_info asks whether the entry exists; without one the ttl is -1 and no
\* TTL is asked for
CallInfo(p, url) ==
  /\ procs[p].pc = "idle"
  /\ LET is_cached == RExists(redis, CacheKey(url))
     IN procs' = [procs EXCEPT ![p] = [pc |-> IF is_cached # 0 THEN "ttl" ELSE "count",
                                       url |-> url, is_cached |-> is_cached, ttl |-> -1]]
  /\ UNCHANGED <<redis, issued, ret, calls, fetches, filled, returned, lapsed, twin, pages>>

\* get_cache_info asks for the entry's TTL
InfoTtl(p) ==
  /\ procs[p].pc = "ttl"
  /\ procs' = [procs EXCEPT ![p].pc = "count", ![p].ttl = RTtl(redis, CacheKey(procs[p].url))]
  /\ UNCHANGED <<redis, issued, ret, calls, fetches, filled, returned, lapsed, twin, pages>>

\* get_cache_info reads the access count and returns <<is_cached, ttl, access_count>>
InfoCount(p) ==
  /\ procs[p].pc = "count"
  /\ procs' = [procs EXCEPT ![p] = Idle]
  /\ ret' = Ret("get_cache_info", procs[p].url, "None", PyNone, FALSE,
                <<<<procs[p].is_cached, procs[p].ttl, AccessCount(redis, procs[p].url).v[1]>>>>)
  /\ UNCHANGED <<redis, issued, calls, fetches, filled, returned, lapsed, twin, pages>>

\* the two callers of the fetch module whose calls overlap
Callers == {1, Reader}

\* two callers of get_page, get_page_simple, get_access_count, clear_cache and
\* get_cache_info for one URL, their round trips in any order and a second passing
\* now and then. A failing request of get_page is one more text written by the same
\* SETEX; that of get_page_simple takes the except branch.
NextConcWeb ==
  \/ \E p \in Callers, url \in OneUrl : Fetched < MaxRaced /\ CallPage(p, url)
  \/ \E p \in Callers, o \in OkOutcomes : LookupPage(p, o)
  \/ \E p \in Callers : WritePage(p)
  \/ \E p \in Callers, url \in OneUrl : Fetched < MaxRaced /\ CallSimple(p, url)
  \/ \E p \in Callers, o \in FewOutcomes : LookupSimple(p, o)
  \/ \E p \in Callers : WriteSimple(p)
  \/ \E p \in Callers : ExceptSimple(p)
  \/ \E url \in OneUrl : GetAccessCount(url)
  \/ \E p \in Callers, url \in OneUrl \cup {<<>>} : CallClear(p, url)
  \/ \E p \in Callers : DeleteListed(p)
  \/ \E p \in Callers, url \in OneUrl : CallInfo(p, url)
  \/ \E p \in Callers : InfoTtl(p)
  \/ \E p \in Callers : InfoCount(p)
  \/ Tick

SpecConcWeb == Init /\ [][NextConcWeb]_vars

(***************************************************************************)
(* Properties                                                               *)
(***************************************************************************)
IsRead(r) == r.op \in {"get", "get_str", "get_int"}

\* the last call read, with no coercion function, the key the one store returned
RawReadBack ==
  /\ ret.op = "get" /\ ret.fn = "None"
  /\ Len(calls) = 1
  /\ calls[1].out = PyStr(ret.key)

\* C1 as stated: for every payload p of every supported kind, get(store(p)) with no
\* fn returns a value equal to p.
C1_RoundTripAnyKind == RawReadBack => ret.val = calls[1].arg

\* C1, amended: get(store(p)) with no fn returns the byte string the client sent
\* for p (p itself for a byte payload, the UTF-8 encoding of a text, the decimal
\* rendering of an integer, the repr of a float); it equals p only for bytes.
C1_RoundTripRaw ==
  RawReadBack =>
    /\ ret.val = PyBytes(Encode(calls[1].arg))
    /\ (calls[1].arg.t = "bytes" => ret.val = calls[1].arg)
    /\ (calls[1].arg.t # "bytes" => ret.val # calls[1].arg)

\* C1 witness: b"\xc3\xa9" was stored and read back without a coercion function
C1_Witness ==
  /\ RawReadBack
  /\ calls[1].arg = PyBytes(<<195, 169>>)
  /\ ret.val = PyBytes(<<195, 169>>)

\* the last call read the key the one store returned
ReadBack == IsRead(ret) /\ Len(calls) = 1 /\ calls[1].out = PyStr(ret.key)

AsInt(r) == (r.op = "get" /\ r.fn = "int") \/ r.op = "get_int"
AsStr(r) == (r.op = "get" /\ r.fn = "decode") \/ r.op = "get_str"

\* C2: round trip with coercion: get(store(n), fn=int) = n and get_int(store(n)) = n
\* for every integer n; get(store(s), fn=decode) = s and get_str(store(s)) = s for
\* every text s; get(store(b)) = b for every byte payload b.
C2_RoundTripCoerced ==
  ReadBack =>
    /\ (calls[1].arg.t = "int" /\ AsInt(ret) => ret.val = calls[1].arg)
    /\ (calls[1].arg.t = "str" /\ AsStr(ret) => ret.val = calls[1].arg)
    /\ (calls[1].arg.t = "bytes" /\ ret.op = "get" /\ ret.fn = "None"
          => ret.val = calls[1].arg)

\* C2 witness: -7 was stored and read back by get_int
C2_Witness ==
  /\ ReadBack
  /\ ret.op = "get_int"
  /\ calls[1].arg = PyInt(-7)
  /\ ret.val = PyInt(-7)

\* the keys the decorators of store write
InstrumentKeys == {QualName, InputKey, OutputKey}

\* C3 as stated: for every key k never returned by store, after any sequence of
\* store calls, get(k) returns None, with or without a coercion function.
C3_UnknownKeyAbsent ==
  (IsRead(ret) /\ ret.key \notin returned) => ret.val = PyNone

\* C3, amended: for every key k never returned by store and other than the keys the
\* decorators write ("Cache.store", "Cache.store:inputs", "Cache.store:outputs"),
\* after any sequence of store calls, get(k) returns None, with or without a
\* coercion function; the coercion function is not applied and nothing is raised.
C3_UnwrittenKeyAbsent ==
  (IsRead(ret) /\ ret.key \notin returned \cup InstrumentKeys) => ret.val = PyNone

\* C3 witness: after a store that succeeded and one that raised, get with fn=int of
\* the key the failed call drew (never returned) gave None
C3_Witness ==
  /\ ret.op = "get" /\ ret.fn = "int"
  /\ ret.key \in {Uuid(i) : i \in 1..issued} \ returned
  /\ returned # {}
  /\ Present(redis, QualName)
  /\ ret.val = PyNone

\* the counter as a caller reads it
CounterValue(db) == RGet(db, QualName)
CounterOf(n) == IF n = 0 THEN PyNone ELSE PyBytes(IntStr(n))

\* C4: after n invocations of the decorated store on a freshly constructed Cache the
\* counter under "Cache.store" is exactly n, however the calls interleave with get,
\* replay and fetch.
C4_CounterIsCallCount == CounterValue(redis) = CounterOf(Len(calls))

\* C4 witness: three store calls, one of which raised, with a fetch in between, and
\* the counter reads b"3"
C4_Witness ==
  /\ Len(calls) = 3
  /\ \E i \in 1..3 : IsRaised(calls[i].out)
  /\ Fetched > 0
  /\ CounterValue(redis) = PyBytes(<<51>>)

AllSucceeded == \A i \in 1..Len(calls) : ~IsRaised(calls[i].out)

\* C5: after n sequential successful calls of the decorated store on a fresh Cache,
\* "Cache.store:inputs" and "Cache.store:outputs" both have length n, the i-th input
\* is the serialized positional arguments of the i-th call and the i-th output the
\* key the i-th call returned.
C5_HistoryPairsCalls ==
  AllSucceeded =>
    /\ RLrange(redis, InputKey) = [i \in 1..Len(calls) |-> Encode(StrArgs(calls[i].arg))]
    /\ RLrange(redis, OutputKey) = [i \in 1..Len(calls) |-> Encode(calls[i].out)]

\* C5 witness: three successful calls with different payloads
C5_Witness ==
  /\ Len(calls) = 3
  /\ AllSucceeded
  /\ calls[1].arg # calls[2].arg /\ calls[2].arg # calls[3].arg /\ calls[1].arg # calls[3].arg
  /\ Len(RLrange(redis, InputKey)) = 3
  /\ Len(RLrange(redis, OutputKey)) = 3

\* this step is a call get_page(u)
PageCall(u) == ret'.op = "get_page" /\ ret'.key = u /\ fetches'[u] = fetches[u] + 1

\* requests.get raises
Failure == [ok |-> FALSE, body |-> <<>>]

\* C6: whenever a cache entry for a URL is present and unexpired (whatever the cached
\* payload, the empty one included), get_page of that URL returns the cached
\* payload, identical to what the miss that wrote it returned, and does not invoke
\* the underlying slow operation.
C6_HitServesEntry ==
  [][\A u \in Urls :
       (PageCall(u) /\ Present(redis, CacheKey(u)))
         => (~ret'.invoked /\ ret'.val = filled[u])]_vars

\* what holds of C6: the same, for the entries whose payload is not empty
C6_HitServesNonEmptyEntry ==
  [][\A u \in Urls :
       (PageCall(u) /\ Present(redis, CacheKey(u)) /\ redis[CacheKey(u)].val # <<>>)
         => (~ret'.invoked /\ ret'.val = filled[u])]_vars

\* the cache entry of u is what it was
EntryUnchanged(u) ==
  /\ Present(redis', CacheKey(u)) <=> Present(redis, CacheKey(u))
  /\ Present(redis, CacheKey(u)) => redis'[CacheKey(u)] = redis[CacheKey(u)]

\* C7: when the network request inside get_page fails, the failure propagates to the
\* caller of the fetch, no cache entry is written for that URL, and the increment
\* of the access counter is kept.
C7_FailurePropagates ==
  [][\A u \in Urls :
       (GetPage(u, Failure) /\ ~IsHit(redis, u))
         => /\ IsRaised(ret'.val)
            /\ EntryUnchanged(u)
            /\ AccessCount(redis', u) = PyInt(AccessCount(redis, u).v[1] + 1)]_vars

\* what holds of C7: the increment is kept
C7_FailureCounted ==
  [][\A u \in Urls :
       (GetPage(u, Failure) /\ ~IsHit(redis, u))
         => AccessCount(redis', u) = PyInt(AccessCount(redis, u).v[1] + 1)]_vars

\* C8: "count:<url>" is incremented by exactly one on every fetch call for the URL,
\* hit, miss or failed fetch alike: after k fetch calls from an absent counter
\* get_access_count(url) = k, and 0 when the URL was never fetched.
C8_CountIsFetches == \A u \in Urls : AccessCount(redis, u) = PyInt(fetches[u])

\* C8 witness: three fetch calls of one URL, the first a failed fetch whose error
\* text was cached, the last a hit, and none of the other URL
C8_Witness ==
  \E u \in Urls :
    /\ fetches[u] = 3
    /\ filled[u] = PyStr(ErrorText(u))
    /\ ret.op = "get_page" /\ ret.key = u /\ ~ret.invoked
    /\ AccessCount(redis, u) = PyInt(3)
    /\ \E w \in Urls : AccessCount(redis, w) = PyInt(0)

\* C9: an entry lives at most Expiration seconds; once its time is up it is absent,
\* and a fetch of a URL with no entry (never cached, or expired) invokes the
\* underlying slow operation and ends with the entry holding the freshly fetched
\* payload with the full TTL.
C9_MissWritesFreshEntry ==
  [][\A u \in Urls :
       /\ (PageCall(u) /\ ~Present(redis, CacheKey(u)))
            => /\ ret'.invoked
               /\ Present(redis', CacheKey(u))
               /\ redis'[CacheKey(u)] = StringVal(Encode(ret'.val), Expiration)
       /\ Present(redis', CacheKey(u)) => redis'[CacheKey(u)].ttl \in 1..Expiration
       /\ (RTtl(redis, CacheKey(u)) = 1 /\ lapsed'[u] = lapsed[u] + 1)
            => ~Present(redis', CacheKey(u))]_vars

\* C9 witness: the second fetch of a URL, after its entry ran out of time, fetched
\* the page again and wrote it with the full TTL
C9_Witness ==
  \E u \in Urls :
    /\ lapsed[u] = 1
    /\ fetches[u] = 2
    /\ ret.op = "get_page" /\ ret.key = u /\ ret.invoked
    /\ Present(redis, CacheKey(u))
    /\ redis[CacheKey(u)] = StringVal(Encode(ret.val), Expiration)

\* C10: concurrent decorated store calls never lose a counter increment: under every
\* interleaving of their backend steps the counter "Cache.store" equals the number
\* of calls once all of them have completed.
C10_NoLostIncrement == InFlight = 0 => CounterValue(redis) = CounterOf(Len(calls))

\* C10 witness: two calls overlapped (the one that returned first recorded its
\* input second), both are over and the counter reads b"2"
C10_Witness ==
  /\ InFlight = 0
  /\ Len(calls) = 2
  /\ AllSucceeded
  /\ calls[1].arg # calls[2].arg
  /\ RLrange(redis, InputKey)[1] = Encode(StrArgs(calls[2].arg))
  /\ CounterValue(redis) = PyBytes(<<50>>)

\* C11: replay is a pure read and idempotent: a replay call changes no key of the
\* database (counter, input list, output list, stored values), and two replay calls
\* in a row print the same lines.
C11_ReplayPureIdempotent ==
  [][/\ ret'.op = "replay" => redis' = redis
     /\ (ret.op = "replay" /\ ret'.op = "replay") => ret'.out = ret.out]_vars

\* C11 witness: replay ran after three calls, one of which raised, and printed the
\* header and the two pairs, the database still holding counter and both lists
C11_Witness ==
  /\ ret.op = "replay"
  /\ Len(calls) = 3
  /\ Len(ret.out) = 3
  /\ CounterValue(redis) = PyBytes(<<51>>)
  /\ Len(RLrange(redis, InputKey)) = 3
  /\ Len(RLrange(redis, OutputKey)) = 2

\* C12: the wrappers compose either way: with count_calls outside call_history (as in
\* the code) and with call_history outside count_calls, every sequence of calls,
\* successful or failing, ends with the same counter value, the same input and
\* output history and the same return values.
C12_NestingOrderIrrelevant ==
  /\ CounterValue(twin.db) = CounterValue(redis)
  /\ RLrange(twin.db, InputKey) = RLrange(redis, InputKey)
  /\ RLrange(twin.db, OutputKey) = RLrange(redis, OutputKey)
  /\ twin.out = [i \in 1..Len(calls) |-> calls[i].out]

\* C12 witness: three calls under either nesting, the second of which raised
\* (counted and recorded as input, no output)
C12_Witness ==
  /\ Len(twin.out) = 3
  /\ ~IsRaised(twin.out[1]) /\ IsRaised(twin.out[2]) /\ ~IsRaised(twin.out[3])
  /\ CounterValue(twin.db) = PyBytes(<<51>>)
  /\ Len(RLrange(twin.db, InputKey)) = 3
  /\ Len(RLrange(twin.db, OutputKey)) = 2
  /\ Len(RLrange(redis, OutputKey)) = 2

\* the counter as a number, 0 when the key is absent
Counted(db) == ReplayCount(db).v[1]

\* C13: when the set inside the decorated store raises, the error reaches the
\* caller, the counter has gone up by one, the input history has gained the
\* serialized arguments of the call and the output history is as it was (so after
\* lists of equal length the inputs are one longer than the outputs); no key is
\* written for the payload.
C13_FailedCallRecorded ==
  [][\A data \in StorePayloads :
       (SetRaises(data) /\ ret'.op = "store" /\ Store(data))
         => /\ IsRaised(ret'.val)
            /\ Counted(redis') = Counted(redis) + 1
            /\ RLrange(redis', InputKey)
                 = Append(RLrange(redis, InputKey), Encode(StrArgs(data)))
            /\ RLrange(redis', OutputKey) = RLrange(redis, OutputKey)
            /\ (Len(RLrange(redis, InputKey)) = Len(RLrange(redis, OutputKey))
                  => Len(RLrange(redis', InputKey)) = Len(RLrange(redis', OutputKey)) + 1)
            /\ DOMAIN redis' \ DOMAIN redis \subseteq InstrumentKeys]_vars

\* C13 witness: after one successful call, a call with a text that cannot be encoded
\* raised; the counter reads b"2", two inputs and one output are recorded
C13_Witness ==
  /\ ret.op = "store" /\ ret.val = Raised("UnicodeEncodeError")
  /\ Len(calls) = 2
  /\ ~IsRaised(calls[1].out)
  /\ calls[2].arg = PyStr(<<55296>>)
  /\ CounterValue(redis) = PyBytes(<<50>>)
  /\ Len(RLrange(redis, InputKey)) = 2
  /\ RLrange(redis, InputKey)[2] = Encode(StrArgs(calls[2].arg))
  /\ Len(RLrange(redis, OutputKey)) = 1

\* no call ended while another was running: no two calls overlapped
NoOverlap == \A i \in 1..Len(calls) : calls[i].alone

\* the i-th input and the i-th output are those of the i-th call
Paired ==
  /\ RLrange(redis, InputKey) = [i \in 1..Len(calls) |-> Encode(StrArgs(calls[i].arg))]
  /\ RLrange(redis, OutputKey) = [i \in 1..Len(calls) |-> Encode(calls[i].out)]

\* C14: pairing under concurrency: the i-th input pairs with the i-th output when no
\* two store calls overlapped (and none failed); when two calls interleave their
\* backend steps the lists may end up pairing entries of different calls (the
\* witness), while each list still holds its entries in the order in which the
\* append steps happened: every append goes to the tail and nothing else changes
\* the lists.
C14_ListsInAppendOrder ==
  [][/\ (InFlight' = 0 /\ NoOverlap' /\ AllSucceeded') => Paired'
     /\ \A p \in Procs :
          /\ (procs[p].pc = "input" /\ procs'[p].pc = "set")
               => RLrange(redis', InputKey)
                    = Append(RLrange(redis, InputKey), Encode(StrArgs(procs[p].arg)))
          /\ (procs[p].pc = "output" /\ procs'[p].pc = "idle")
               => RLrange(redis', OutputKey)
                    = Append(RLrange(redis, OutputKey), Encode(PyStr(procs[p].key)))
     /\ (\A p \in Procs : ~(procs[p].pc = "input" /\ procs'[p].pc = "set"))
          => RLrange(redis', InputKey) = RLrange(redis, InputKey)
     /\ (\A p \in Procs : ~(procs[p].pc = "output" /\ procs'[p].pc = "idle"))
          => RLrange(redis', OutputKey) = RLrange(redis, OutputKey)]_vars

\* C14 witness: two successful calls overlapped and both are over; the first input is
\* that of the call that ended second, the first output the key of the call that
\* ended first
C14_Witness ==
  /\ InFlight = 0
  /\ Len(calls) = 2
  /\ AllSucceeded
  /\ ~NoOverlap
  /\ calls[1].arg # calls[2].arg
  /\ RLrange(redis, InputKey) = <<Encode(StrArgs(calls[2].arg)), Encode(StrArgs(calls[1].arg))>>
  /\ RLrange(redis, OutputKey) = <<Encode(calls[1].out), Encode(calls[2].out)>>

\* the fetch calls under way
Fetching == Cardinality({p \in Procs : procs[p].pc \in {"lookup", "write", "lookup_simple",
                                                        "write_simple", "except_simple"}})

\* the fetch calls of u that ended, among the first n
PagesOf(u, n) == {i \in 1..n : pages[i].url = u}

\* the calls of u that wrote its entry
WritersOf(u) == {i \in PagesOf(u, Len(pages)) : pages[i].wrote}

Last(S) == CHOOSE i \in S : \A j \in S : j <= i

\* C15: concurrent misses: every fetch call that observes a miss, whether or not
\* another call of the same URL is under way, invokes the slow operation, writes the
\* entry and returns the payload it fetched itself; the entry holds the payload of
\* the write that happened last, and the access counter counts every call (2 after
\* two). The calls are those of get_page, with calls of get_page_simple running
\* next to them, which write the entry only when their request succeeds.
C15_ConcurrentMisses ==
  /\ \A i \in 1..Len(pages) :
       /\ ~Truthy(pages[i].seen) <=> pages[i].fetched # PyNone
       /\ ~Truthy(pages[i].seen) => pages[i].out = pages[i].fetched
       /\ Truthy(pages[i].seen) => pages[i].out = Decode(pages[i].seen.v)
       /\ pages[i].fn = "get_page" => (pages[i].wrote <=> ~Truthy(pages[i].seen))
       /\ pages[i].wrote => ~Truthy(pages[i].seen)
  /\ \A u \in Urls :
       /\ WritersOf(u) # {}
            => /\ Present(redis, CacheKey(u))
               /\ redis[CacheKey(u)]
                    = StringVal(Encode(pages[Last(WritersOf(u))].fetched),
                                IF pages[Last(WritersOf(u))].fn = "get_page"
                                THEN Expiration ELSE SimpleExpiration)
       /\ AccessCount(redis, u) = PyInt(fetches[u])
       /\ Fetching = 0 => fetches[u] = Cardinality(PagesOf(u, Len(pages)))

\* C15 witness: two calls of get_page for one uncached URL both saw no entry, fetched
\* different payloads and each returned its own; both are over, the entry holds the
\* payload of the call that wrote last and the counter reads 2
C15_Witness ==
  \E u \in Urls :
    /\ Fetching = 0
    /\ Len(pages) = 2
    /\ pages[1].fn = "get_page" /\ pages[2].fn = "get_page"
    /\ pages[1].url = u /\ pages[2].url = u
    /\ pages[1].seen = PyNone /\ pages[2].seen = PyNone
    /\ pages[1].wrote /\ pages[2].wrote
    /\ pages[1].fetched # pages[2].fetched
    /\ pages[1].out = pages[1].fetched /\ pages[2].out = pages[2].fetched
    /\ redis[CacheKey(u)].val = Encode(pages[2].fetched)
    /\ AccessCount(redis, u) = PyInt(2)

IsPrefix(a, b) == Len(a) <= Len(b) /\ SubSeq(b, 1, Len(a)) = a

\* across this step the counter did not go down, no history entry went away and
\* every stored key still holds what it held
Grows ==
  \/ redis' = redis
  \/ /\ Counted(redis') >= Counted(redis)
     /\ IsPrefix(RLrange(redis, InputKey), RLrange(redis', InputKey))
     /\ IsPrefix(RLrange(redis, OutputKey), RLrange(redis', OutputKey))
     /\ \A k \in DOMAIN redis \ InstrumentKeys :
          Present(redis', k) /\ redis'[k] = redis[k]

\* the call that ended with this step, if it returned a key, left its payload there
HoldsPayload ==
  (Len(calls') > Len(calls) /\ ~IsRaised(calls'[Len(calls')].out))
    => LET k == Utf8Encode(calls'[Len(calls')].out.v)
       IN /\ ~Present(redis, k)
          /\ Present(redis', k)
          /\ redis'[k] = StringVal(Encode(calls'[Len(calls')].arg), -1)

\* C16 as stated: across any sequence of core operations of the object store
\* (constructing a Cache, store, get, get_str, get_int, replay) the counter never
\* decreases, no entry is removed from either history and every key store returned
\* keeps its payload.
C16_StateOnlyGrows == [][Grows]_vars

\* C16, amended: the same across store, get, get_str, get_int and replay: a store
\* writes its payload under a key that was not there, and from then on no stored
\* key changes or goes away until a Cache is constructed; constructing a Cache
\* empties the database (counter, both histories and every stored key).
C16_GrowsBetweenConstructions ==
  [][/\ ret'.op # "Cache" => Grows
     /\ ret'.op = "Cache" => redis' = EmptyDb
     /\ HoldsPayload]_vars

\* C16 witness: a Cache was constructed after a first store; two stores and a read
\* later the counter reads b"2" and both keys returned since hold their payloads
C16_Witness ==
  /\ issued = 3
  /\ Len(calls) = 2
  /\ AllSucceeded
  /\ IsRead(ret)
  /\ CounterValue(redis) = PyBytes(<<50>>)
  /\ \A i \in 1..2 : RGet(redis, Utf8Encode(calls[i].out.v)) = PyBytes(Encode(calls[i].arg))
  /\ ~Present(redis, Utf8Encode(Uuid(1)))

\* across this step the entry of u went away
Removed(u) == Present(redis, CacheKey(u)) /\ ~Present(redis', CacheKey(u))

\* across this step the time of u's entry ran out
Expired(u) == RTtl(redis, CacheKey(u)) > 0 /\ lapsed'[u] = lapsed[u] + 1

\* this step is a DEL of clear_cache that names the entry of u: clear_cache(u), or
\* clear_cache() deleting the keys it listed, u's among them
Cleared(u) ==
  \E p \in Procs : \/ CallClear(p, u)
                   \/ DeleteListed(p) /\ CacheKey(u) \in procs[p].cache_keys

\* C17 as stated: expiry is the sole removal path of a cache entry: no operation of
\* the fetch module (get_page, get_page_simple, get_access_count, get_cache_info,
\* clear_cache) removes "cache:<url>" before its TTL has elapsed.
C17_OnlyExpiryRemoves == [][\A u \in Urls : Removed(u) => Expired(u)]_vars

\* C17, amended: an entry goes away only when its TTL has elapsed or when
\* clear_cache is called for its URL or for all URLs; get_page, get_page_simple,
\* get_access_count and get_cache_info never remove one, whether they find it
\* there or not. The DEL of clear_cache leaves no entry it names: clear_cache(url)
\* that of url, clear_cache() those its KEYS listed.
C17_ExpiryOrClearRemoves ==
  [][\A u \in Urls :
       /\ Removed(u) => (Expired(u) \/ Cleared(u))
       /\ Cleared(u) => ~Present(redis', CacheKey(u))]_vars

\* C17 witness: get_page wrote the entry of "a", get_page_simple found it there and
\* served it, a get_cache_info that saw it has still to ask for its TTL, and
\* clear_cache() has now deleted it, listed by its KEYS, no second of it used up
C17_Witness ==
  /\ ret.op = "clear_cache" /\ ret.key = <<>>
  /\ \A u \in Urls : lapsed[u] = 0
  /\ ~Present(redis, CacheKey(<<97>>))
  /\ AccessCount(redis, <<97>>) = PyInt(2)
  /\ Len(pages) = 2
  /\ pages[1].fn = "get_page" /\ pages[1].wrote
  /\ pages[2].fn = "get_page_simple" /\ Truthy(pages[2].seen) /\ ~pages[2].wrote
  /\ pages[2].out = pages[1].fetched
  /\ \E p \in Procs : procs[p].pc = "ttl" /\ procs[p].is_cached = 1

\* this step is a fetch call of u, by get_page or get_page_simple
FetchCall(u) ==
  /\ ret'.op \in {"get_page", "get_page_simple"}
  /\ ret'.key = u
  /\ fetches'[u] = fetches[u] + 1

\* C18: a cache entry is created or refreshed only on a miss: a fetch call that finds
\* the entry present leaves its payload and its remaining TTL as they are (a hit
\* never extends the lifetime), so the time an entry has left never goes up while
\* it is there and an entry written at t is absent at t + expiration however many
\* hits occur in between.
C18_HitLeavesEntry ==
  [][\A u \in Urls :
       /\ (FetchCall(u) /\ Present(redis, CacheKey(u))) => EntryUnchanged(u)
       /\ (Present(redis, CacheKey(u)) /\ Present(redis', CacheKey(u)))
            => redis'[CacheKey(u)].ttl <= redis[CacheKey(u)].ttl]_vars

\* what holds of C18: the same, for the entries whose payload is not empty
C18_HitLeavesNonEmptyEntry ==
  [][\A u \in Urls :
       /\ (FetchCall(u) /\ IsHit(redis, u)) => EntryUnchanged(u)
       /\ (IsHit(redis, u) /\ Present(redis', CacheKey(u)))
            => redis'[CacheKey(u)].ttl <= redis[CacheKey(u)].ttl]_vars

\* the calls that returned a key, in order
Succeeded == SelectSeq(calls, LAMBDA c : ~IsRaised(c.out))

\* C19: replay prints one summary line with the counter value (0 when the counter is
\* absent), then exactly min(len(inputs), len(outputs)) lines, the i-th pairing the
\* i-th input with the i-th output in append order; when the lists differ in
\* length (a call that raised left an input without output) the surplus entries
\* are dropped and nothing is raised. Stated of the step in which replay gets its
\* last answer and prints, with store calls of other callers running between its
\* three reads: the counter value is the one its GET answered, the lengths are those
\* its two LRANGEs answered, and line i shows the i-th entries of the two lists; when
\* the calls ran one at a time and were all over before replay began, the header
\* counts the calls, there is one line per call that returned, and line i shows the
\* arguments of the i-th call with the key of the i-th call that returned.
C19_ReplayOutput ==
  [][(procs[Reader].pc = "outputs" /\ procs'[Reader].pc = "idle") =>
       LET call_count == procs[Reader].call_count.v[1]
           inputs == procs[Reader].inputs
           outputs == RLrange(redis, OutputKey)
           n == IF Len(inputs) < Len(outputs) THEN Len(inputs) ELSE Len(outputs)
       IN /\ ret'.op = "replay" /\ ~IsRaised(ret'.val)
          /\ Len(ret'.out) = 1 + n
          /\ ret'.out[1] = QualName \o <<32, 119, 97, 115, 32, 99, 97, 108, 108, 101, 100, 32>>
                                    \o IntStr(call_count) \o <<32, 116, 105, 109, 101, 115, 58>>
          /\ call_count <= Counted(redis)
          /\ (~Present(redis, QualName)) => call_count = 0
          /\ \A i \in 1..n :
               ret'.out[i + 1] = QualName \o <<40, 42>> \o Decode(RLrange(redis, InputKey)[i]).v
                                          \o <<41, 32, 45, 62, 32>>
                                          \o Decode(RLrange(redis, OutputKey)[i]).v
          /\ (InFlight = 0 /\ NoOverlap /\ call_count = Len(calls) /\ Len(inputs) = Len(calls))
               => /\ n = Len(Succeeded)
                  /\ \A i \in 1..n :
                       ret'.out[i + 1] = QualName \o <<40, 42>> \o StrArgs(calls[i].arg).v
                                                  \o <<41, 32, 45, 62, 32>> \o Succeeded[i].out.v]_vars

\* C19 witness: replay read the counter when one call had been counted and the lists
\* when that call had raised and two more had returned, one call at a time: the
\* header says 1, there are three inputs and two outputs, and the first of the two
\* lines pairs the arguments of the failed call with the key of the second call
C19_Witness ==
  /\ ret.op = "replay"
  /\ Len(calls) = 3 /\ NoOverlap /\ InFlight = 0
  /\ IsRaised(calls[1].out) /\ ~IsRaised(calls[2].out) /\ ~IsRaised(calls[3].out)
  /\ Len(RLrange(redis, InputKey)) = 3
  /\ Len(RLrange(redis, OutputKey)) = 2
  /\ Len(ret.out) = 3
  /\ ret.out[1] = HeaderOf(PyInt(1))
  /\ ret.out[2] = QualName \o <<40, 42>> \o StrArgs(calls[1].arg).v
                           \o <<41, 32, 45, 62, 32>> \o calls[2].out.v

\* the keys holding payloads: every key but those of the decorators
PayloadKeys(db) == DOMAIN db \ InstrumentKeys

\* the callers whose next step is pc
At(pc) == Cardinality({p \in Procs : procs[p].pc = pc})

\* the calls that raised
Failed == Cardinality({i \in 1..Len(calls) : IsRaised(calls[i].out)})

\* C20: step ordering: for store calls on one Cache, none constructed meanwhile, under
\* any interleaving of concurrent calls and any failures,
\* len(outputs) <= len(inputs) <= counter and the number of payload keys written is
\* between len(outputs) and len(inputs): each call increments, appends its input,
\* sets its key and appends its output in that order, so the differences are the
\* calls standing between two of these steps and the calls whose set raised.
C20_StepOrdering ==
  LET inputs == Len(RLrange(redis, InputKey))
      outputs == Len(RLrange(redis, OutputKey))
      written == Cardinality(PayloadKeys(redis))
  IN /\ outputs <= inputs /\ inputs <= Counted(redis)
     /\ outputs <= written /\ written <= inputs
     /\ Counted(redis) = inputs + At("input")
     /\ inputs = written + At("set") + Failed
     /\ written = outputs + At("output")

\* C20 witness: one call raised at its set, one has set its key and not yet recorded
\* its output, one has been counted and not yet recorded its input:
\* outputs < keys written < inputs < counter
C20_Witness ==
  /\ Failed = 1
  /\ At("output") = 1
  /\ At("input") = 1
  /\ Len(RLrange(redis, OutputKey)) = 0
  /\ Cardinality(PayloadKeys(redis)) = 1
  /\ Len(RLrange(redis, InputKey)) = 2
  /\ Counted(redis) = 3

\* a call of either implementation for u with outcome o returns the same and leaves
\* the same database, and so does the call that follows it, with outcome o2
SameFetch(u, o, o2) ==
  /\ PageResult(redis, u, o) = SimpleResult(redis, u, o)
  /\ PageDb(redis, u, o) = SimpleDb(redis, u, o)
  /\ PageResult(PageDb(redis, u, o), u, o2) = SimpleResult(SimpleDb(redis, u, o), u, o2)

\* C21: the two fetch implementations are equivalent: after every sequence of fetch
\* calls, expirations and upstream outcomes (success or failure), get_page and
\* get_page_simple return the same values and leave the same database (the same
\* "count:<url>" values and the same "cache:<url>" entries with the same TTLs).
C21_SameFetchAnyOutcome ==
  [][\A u \in Urls, o \in Outcomes, o2 \in Outcomes :
       (FetchCall(u) /\ (GetPage(u, o) \/ GetPageSimple(u, o))) => SameFetch(u, o, o2)]_vars

\* what holds of C21: the same, when the request succeeds or the entry is served
C21_SameFetchOnSuccess ==
  [][\A u \in Urls, o \in Outcomes, o2 \in Outcomes :
       (FetchCall(u) /\ (o.ok \/ IsHit(redis, u)) /\ (GetPage(u, o) \/ GetPageSimple(u, o)))
         => SameFetch(u, o, o2)]_vars
=============================================================================
